---- MODULE Spec2Model ----
(***************************************************************************)
(* resumectl: the profile import pipeline (internal/linkedin/scraper.go),  *)
(* the project importer (internal/github) and the init command             *)
(* (internal/cli), as state machines.                                      *)
(*                                                                         *)
(* Text is a sequence of atoms: an atom is a run of bytes that none of the *)
(* substring tests, separators or replacements of the code can cut, so     *)
(* strings.Contains / Index / SplitN / ReplaceAll are computed on atoms    *)
(* exactly as the code computes them on bytes.  "" is << >>.               *)
(* A JSON member that is missing, or has another type than the one the     *)
(* code asserts, is None; a present one is Some(v).                        *)
(***************************************************************************)
EXTENDS Integers, Sequences, FiniteSets, TLC

VARIABLES
    pc,          \* position of the running command / function
    force,       \* forceOverwrite (--force)
    file,        \* the output file on disk
    linkedinURL, \* the --linkedin argument
    cv,          \* runInit's cv: None or Some(CV)
    cookie,      \* sessionCookie (linkedinCookie), empty without --cookie
    username,    \* the profile handle
    csrf,        \* fetchViaVoyagerAPI's jsessionid
    vprofile,    \* what fetchViaVoyagerAPI returned: None or Some(profile)
    verr,        \* the error fetchViaVoyagerAPI returned ("" for nil)
    requests,    \* HTTP requests sent so far, in order
    result,      \* what FetchProfileWithAuth returned: None or Some(profile)
    err,         \* the error FetchProfileWithAuth returned (<< >> for nil)
    profile,     \* *LinkedInProfile built by parseLinkedInHTML
    twin,        \* the profile of a second parseLinkedInHTML run on the same body
    consumed,    \* the piece of the page the last extraction step read
    nblocks,     \* JSON-LD blocks already handled by the loop at scraper.go:323
    urlIn,       \* ExtractUsernameFromURL: the argument
    urlOut,      \* ExtractUsernameFromURL: the returned (username, error)
    api,         \* FetchTopProjects: the repositories the listing API holds
    count,       \* FetchTopProjects: the count argument
    projects,    \* FetchTopProjects: the returned (projects, error)
    apiStatus,   \* FetchTopProjects: what the listing API answered, << >> before
    cmd,         \* the command that runs: "generate", "serve" or "" for neither
    args,        \* its flags and the state of the data file
    out,         \* the output location: the directory and the files in it
    touched,     \* what the command created or wrote in the output location
    gen,         \* the *Generator: None or Some(generator)
    env,         \* GOOS and the executables exec.LookPath finds
    tried,       \* GeneratePDF: the methods called so far, each with its outcome
    lastErr,     \* GeneratePDF: lastErr
    gerr,        \* the error the command ended on ("" for none)
    src,         \* the data file the server watches
    doc,         \* cv.html on disk: the version of the data it renders
    lastModTime, \* liveServer.lastModTime
    clock,       \* time.Now()
    wpc,         \* watchFile: where the polling task stands
    wlast,       \* watchFile: its local lastModTime
    wgen,        \* regenerate: the version of the data its generator loaded
    mu,          \* liveServer.mu
    hpc,         \* where every HTTP handler stands
    sig,         \* an interrupt was delivered to sigChan
    ctx,         \* ctx was cancelled
    spc,         \* the signal goroutine (serve.go:232-237)
    http,        \* httpServer: "open", "draining" or "closed"
    mainpc,      \* runServe after the listener started
    detected,    \* the version of the data at the watcher's last detection
    pending,     \* the last save advanced the modification time, no regeneration started since
    edits,       \* the changes of the modification time so far
    regens,      \* regenerations started, failed and stored since the first change
    lastCV,      \* the last answer of handleCV, None before
    \* a function of the data model or of the themes called on its own
    callIn,      \* what it is called with
    callOut,     \* what it returned, None before the call
    \* fetchUserRepos step by step
    reqPage,     \* page
    collected,   \* allRepos
    asked        \* the pages requested so far, in order

initVars == <<force, file, linkedinURL, cv>>
fetchVars == <<cookie, username, csrf, vprofile, verr, requests, result, err>>
parseVars == <<profile, twin, consumed, nblocks>>
urlVars == <<urlIn, urlOut>>
githubVars == <<api, count, projects, apiStatus>>
commandVars == <<cmd, args, out, touched, gen, env, tried, lastErr, gerr>>
watchVars == <<wpc, wlast, wgen>>
stopVars == <<sig, ctx, spc, http, mainpc>>
histVars == <<detected, pending, edits, regens, lastCV>>
serveVars == <<src, doc, lastModTime, clock, watchVars, mu, hpc, stopVars, histVars>>
repoVars == <<reqPage, collected, asked>>
callVars == <<callIn, callOut, repoVars>>

vars == <<pc, initVars, fetchVars, parseVars, urlVars, githubVars, commandVars, serveVars,
         callVars>>

(***************************************************************************)
(* Bounds of the model.                                                    *)
(***************************************************************************)
MaxBlocks == 2      \* JSON-LD script blocks in one page
MaxGraph == 2       \* records in one "@graph" block
MaxIncluded == 2    \* entries of one "included" list
MaxSegments == 3    \* path segments of a profile reference
MaxRepos == 3       \* repositories of an account, each kind and star count tried
MaxCount == 3       \* the largest --projects value tried

(***************************************************************************)
(* Optional values and text.                                               *)
(***************************************************************************)
None == << >>
Some(v) == <<v>>
IsSome(o) == o # << >>
Get(o) == o[1]

Min(a, b) == IF a < b THEN a ELSE b

\* strings.HasPrefix at position i+1 (i is the 0-based byte offset of the code)
MatchAt(s, sub, i) ==
    /\ i + Len(sub) <= Len(s)
    /\ \A k \in 1..Len(sub) : s[i + k] = sub[k]

\* strings.Contains
Contains(s, sub) == \E i \in 0..Len(s) : MatchAt(s, sub, i)

\* strings.Index: the 0-based offset of the first occurrence, -1 when there is none
Index(s, sub) ==
    IF Contains(s, sub)
    THEN CHOOSE i \in 0..Len(s) :
            /\ MatchAt(s, sub, i)
            /\ \A j \in 0..(i - 1) : ~MatchAt(s, sub, j)
    ELSE -1

\* s[i:] and s[:i] of the code
From(s, i) == SubSeq(s, i + 1, Len(s))
Upto(s, i) == SubSeq(s, 1, i)

\* strings.ReplaceAll for a non-empty old: leftmost, non-overlapping occurrences
RECURSIVE ReplaceAll(_, _, _)
ReplaceAll(s, old, new) ==
    IF s = << >> THEN << >>
    ELSE IF MatchAt(s, old, 0)
         THEN new \o ReplaceAll(From(s, Len(old)), old, new)
         ELSE <<s[1]>> \o ReplaceAll(Tail(s), old, new)

\* strings.SplitN(s, sep, 2): one part when sep does not occur, else two
SplitN2(s, sep) ==
    LET i == Index(s, sep)
    IN IF i < 0 THEN <<s>> ELSE <<Upto(s, i), From(s, i + Len(sep))>>

\* strings.Split
RECURSIVE Split(_, _)
Split(s, sep) ==
    LET i == Index(s, sep)
    IN IF i < 0 THEN <<s>> ELSE <<Upto(s, i)>> \o Split(From(s, i + Len(sep)), sep)

Space == <<" ">>
IsSpace(a) == a \in {" ", "\n", "\t"}

RECURSIVE TrimLeft(_)
TrimLeft(s) == IF s # << >> /\ IsSpace(s[1]) THEN TrimLeft(Tail(s)) ELSE s

RECURSIVE TrimRight(_)
TrimRight(s) ==
    IF s # << >> /\ IsSpace(s[Len(s)]) THEN TrimRight(Upto(s, Len(s) - 1)) ELSE s

\* strings.TrimSpace
TrimSpace(s) == TrimRight(TrimLeft(s))

Mask == <<"***">>
IsMasked(s) == Contains(s, Mask)


(***************************************************************************)
(* LinkedInProfile and its entries (scraper.go:35-79).                     *)
(***************************************************************************)
EmptyProfile ==
    [FirstName |-> << >>, LastName |-> << >>, Headline |-> << >>,
     Location |-> << >>, Summary |-> << >>, Experience |-> << >>,
     Education |-> << >>, Skills |-> << >>, Languages |-> << >>,
     Certifications |-> << >>]

EmptyExperience ==
    [Title |-> << >>, Company |-> << >>, Location |-> << >>,
     StartDate |-> << >>, EndDate |-> << >>, Description |-> << >>]

EmptyEducation ==
    [School |-> << >>, Degree |-> << >>, Field |-> << >>,
     StartDate |-> << >>, EndDate |-> << >>, Description |-> << >>]

ScalarFields == {"FirstName", "LastName", "Headline", "Location", "Summary"}
ListFields == {"Experience", "Education", "Skills", "Languages", "Certifications"}

\* fmt.Sprintf("%v", v) of a decoded JSON value: a string prints as itself, a
\* number in decimal
Sprintf(v) == IF v.k = "str" THEN v.s ELSE <<ToString(v.n)>>

JStr(s) == [k |-> "str", s |-> s, n |-> 0]
JNum(n) == [k |-> "num", s |-> << >>, n |-> n]

(***************************************************************************)
(* extractFromJSONLD (scraper.go:364-514).                                 *)
(***************************************************************************)
\* the member object of an affiliation: description unless masked, the dates
memberDescription(w) ==
    IF IsSome(w.member) /\ IsSome(Get(w.member).description)
          /\ ~IsMasked(Get(Get(w.member).description))
    THEN Get(Get(w.member).description) ELSE << >>

memberDate(w, key) ==
    IF IsSome(w.member) /\ IsSome(Get(w.member)[key])
    THEN Sprintf(Get(Get(w.member)[key])) ELSE << >>

\* affiliationName without the test for the masking marker
affiliationName_Unmasked(w) == IF IsSome(w.name) THEN Get(w.name) ELSE << >>

\* the name of an affiliation, ignored when masked (scraper.go:406-411, 449-454)
affiliationName(w) ==
    IF IsSome(w.name) /\ ~IsMasked(Get(w.name)) THEN Get(w.name) ELSE << >>

\* the LinkedInExperience built from one worksFor entry (scraper.go:403-432)
workExperience(w) ==
    [EmptyExperience EXCEPT
        !.Company = affiliationName(w),
        !.Location = IF IsSome(w.location) THEN Get(w.location) ELSE << >>,
        !.Description = memberDescription(w),
        !.StartDate = memberDate(w, "startDate"),
        !.EndDate = memberDate(w, "endDate")]

\* the LinkedInEducation built from one alumniOf entry (scraper.go:446-470)
schoolEducation(w) ==
    [EmptyEducation EXCEPT
        !.School = affiliationName(w),
        !.Degree = memberDescription(w),
        !.StartDate = memberDate(w, "startDate"),
        !.EndDate = memberDate(w, "endDate")]

\* keepExperience that keeps every entry, named or not
keepExperience_Always(exp) == TRUE

\* "Only add if we have a valid company name" (scraper.go:434-437)
keepExperience(exp) == exp.Company # << >>

\* "Only add if we have a valid school name" (scraper.go:472-475)
keepEducation(edu) == edu.School # << >>

RECURSIVE appendWorks(_, _)
appendWorks(list, works) ==
    IF works = << >> THEN list
    ELSE LET exp == workExperience(Head(works))
         IN appendWorks(IF keepExperience(exp) THEN Append(list, exp) ELSE list,
                        Tail(works))

RECURSIVE appendSchools(_, _)
appendSchools(list, schools) ==
    IF schools = << >> THEN list
    ELSE LET edu == schoolEducation(Head(schools))
         IN appendSchools(IF keepEducation(edu) THEN Append(list, edu) ELSE list,
                          Tail(schools))

\* knowsLanguage: every entry with a non-empty name (scraper.go:481-491)
RECURSIVE appendLanguages(_, _)
appendLanguages(list, langs) ==
    IF langs = << >> THEN list
    ELSE appendLanguages(
            IF IsSome(Head(langs)) /\ Get(Head(langs)) # << >>
            THEN Append(list, [Name |-> Get(Head(langs)), Proficiency |-> << >>])
            ELSE list,
            Tail(langs))

\* knowsAbout: every non-empty string (scraper.go:494-500)
appendSkills(list, skills) == list \o SelectSeq(skills, LAMBDA x : x # << >>)

\* the first title of a jobTitle list that is not masked: None when all are
RECURSIVE firstUnmasked(_)
firstUnmasked(titles) ==
    IF titles = << >> THEN None
    ELSE IF ~IsMasked(Head(titles)) THEN Some(Head(titles))
         ELSE firstUnmasked(Tail(titles))

\* jobTitle, a list or a string (scraper.go:503-513)
jsonldHeadline(data, old) ==
    IF data.jobTitle.k = "list" /\ data.jobTitle.l # << >>
    THEN IF IsSome(firstUnmasked(data.jobTitle.l))
         THEN Get(firstUnmasked(data.jobTitle.l)) ELSE old
    ELSE IF data.jobTitle.k = "str" /\ ~IsMasked(data.jobTitle.s)
         THEN data.jobTitle.s ELSE old

\* name, split on the first space, only while FirstName is unset (scraper.go:374-382)
jsonldName(data, p) ==
    IF IsSome(data.name) /\ p.FirstName = << >>
    THEN LET parts == SplitN2(Get(data.name), Space)
         IN [p EXCEPT !.FirstName = parts[1],
                      !.LastName = IF Len(parts) >= 2 THEN parts[2] ELSE @]
    ELSE p

\* description with its line-break markers translated (scraper.go:385-390)
jsonldSummary(data, old) ==
    IF IsSome(data.description) /\ old = << >>
    THEN ReplaceAll(ReplaceAll(Get(data.description), <<"<br>">>, <<"\n">>),
                    <<"\\u003Cbr\\u003E">>, <<"\n">>)
    ELSE old

\* address.addressLocality (scraper.go:393-397)
jsonldLocation(data, old) ==
    IF IsSome(data.locality) /\ Get(data.locality) # << >>
    THEN Get(data.locality) ELSE old

extractFromJSONLD(data, p) ==
    IF data.type # <<"Person">> /\ data.type # << >>
    THEN p
    ELSE LET n == jsonldName(data, p)
         IN [n EXCEPT
                !.Summary = jsonldSummary(data, @),
                !.Location = jsonldLocation(data, @),
                !.Experience = IF IsSome(data.worksFor)
                               THEN appendWorks(@, Get(data.worksFor)) ELSE @,
                !.Education = IF IsSome(data.alumniOf)
                              THEN appendSchools(@, Get(data.alumniOf)) ELSE @,
                !.Languages = IF IsSome(data.knowsLanguage)
                              THEN appendLanguages(@, Get(data.knowsLanguage)) ELSE @,
                !.Skills = IF IsSome(data.knowsAbout)
                           THEN appendSkills(@, Get(data.knowsAbout)) ELSE @,
                !.Headline = jsonldHeadline(data, @)]

\* one script block of the page: an "@graph" of records, a single record, or
\* text json.Unmarshal rejects (scraper.go:323-341)
RECURSIVE extractGraph(_, _)
extractGraph(items, p) ==
    IF items = << >> THEN p
    ELSE extractGraph(Tail(items), extractFromJSONLD(Head(items), p))

extractBlock(block, p) ==
    IF block.k = "graph" /\ block.items # << >> THEN extractGraph(block.items, p)
    ELSE IF block.k = "single" THEN extractFromJSONLD(block.items[1], p)
    ELSE p

(***************************************************************************)
(* cleanHTMLEntities (scraper.go:732-747): the replacements are applied in *)
(* the iteration order of a Go map, which the language leaves unspecified: *)
(* order is any arrangement of the six entities.                           *)
(***************************************************************************)
Entities == {"amp;", "lt;", "gt;", "quot;", "#39;", "nbsp;"}

EntityChar(e) ==
    CASE e = "amp;" -> "&" [] e = "lt;" -> "<" [] e = "gt;" -> ">"
      [] e = "quot;" -> "\"" [] e = "#39;" -> "'" [] e = "nbsp;" -> " "

RECURSIVE cleanHTMLEntities(_, _)
cleanHTMLEntities(s, order) ==
    IF order = << >> THEN s
    ELSE cleanHTMLEntities(ReplaceAll(s, <<"&", Head(order)>>, <<EntityChar(Head(order))>>),
                           Tail(order))

MapOrders ==
    {o \in [1..Cardinality(Entities) -> Entities] :
        \A i, j \in 1..Cardinality(Entities) : i # j => o[i] # o[j]}

(***************************************************************************)
(* extractFromMetaTags (scraper.go:517-558).  tags holds the first match   *)
(* of each of the three patterns: the content attribute, or None.          *)
(***************************************************************************)
Dash == <<" ", "-", " ">>
Pipe == <<" ", "|", " ">>

metaTitle(title, p) ==
    LET idx == Index(title, Dash)
    IN IF idx > 0
       THEN LET parts == SplitN2(Upto(title, idx), Space)
                restPart == From(title, idx + 3)
                pipeIdx == Index(restPart, Pipe)
            IN [p EXCEPT
                  !.FirstName = IF @ = << >> THEN parts[1] ELSE @,
                  !.LastName = IF @ = << >> /\ Len(parts) >= 2 THEN parts[2] ELSE @,
                  !.Headline = IF pipeIdx > 0 /\ @ = << >>
                               THEN TrimSpace(Upto(restPart, pipeIdx)) ELSE @]
       ELSE p

\* cleaned is what cleanHTMLEntities returned for the og:description content
extractFromMetaTags(tags, p, cleaned) ==
    LET t == IF IsSome(tags.ogTitle) THEN metaTitle(Get(tags.ogTitle), p) ELSE p
    IN [t EXCEPT
          !.Summary = IF IsSome(tags.ogDescription) /\ @ = << >> THEN cleaned ELSE @,
          !.Location = IF IsSome(tags.geo) /\ @ = << >> THEN Get(tags.geo) ELSE @]

(***************************************************************************)
(* extractFromHTMLContent (scraper.go:561-578).  spans holds the first     *)
(* match of each of the two location patterns, in the order of the list.   *)
(***************************************************************************)
RECURSIVE extractFromHTMLContent(_, _)
extractFromHTMLContent(spans, p) ==
    IF spans = << >> THEN p
    ELSE IF IsSome(Head(spans)) /\ p.Location = << >>
            /\ ~Contains(TrimSpace(Get(Head(spans))), <<"@">>)
         THEN [p EXCEPT !.Location = TrimSpace(Get(Head(spans)))]
         ELSE extractFromHTMLContent(Tail(spans), p)

(***************************************************************************)
(* capitalizeFirst (scraper.go:750-755) and the name synthesized from the  *)
(* handle (scraper.go:349-358).  A handle is a sequence of single bytes.   *)
(***************************************************************************)
ToUpperByte(c) ==
    CASE c = "a" -> "A" [] c = "d" -> "D" [] c = "j" -> "J" [] c = "o" -> "O"
      [] c = "x" -> "X" [] OTHER -> c

ToLowerByte(c) ==
    CASE c = "A" -> "a" [] c = "D" -> "d" [] c = "J" -> "j" [] c = "O" -> "o"
      [] c = "X" -> "x" [] OTHER -> c

MapSeq(s, F(_)) == [i \in 1..Len(s) |-> F(s[i])]

capitalizeFirst(s) ==
    IF Len(s) = 0 THEN s
    ELSE <<ToUpperByte(s[1])>> \o MapSeq(Tail(s), ToLowerByte)

nameFromUsername(user, p) ==
    IF p.FirstName = << >> /\ p.LastName = << >>
    THEN LET parts == Split(user, <<"-">>)
         IN IF Len(parts) >= 2
            THEN [p EXCEPT !.FirstName = capitalizeFirst(parts[1]),
                           !.LastName = capitalizeFirst(parts[2])]
            ELSE [p EXCEPT !.FirstName = capitalizeFirst(user)]
    ELSE p



(***************************************************************************)
(* extractFromVoyagerData (scraper.go:938-1130) and formatTimePeriodDate   *)
(* (scraper.go:1133-1144).  A discriminator or identifier is text whose    *)
(* atoms are the words the substring tests look for.                       *)
(***************************************************************************)
ToLowerAtom(a) ==
    CASE a = "Profile" -> "profile" [] a = "PROFILE" -> "profile"
      [] a = "Position" -> "position" [] a = "Education" -> "education"
      [] a = "Skill" -> "skill" [] a = "Language" -> "language"
      [] a = "LANGUAGE" -> "language" [] a = "Certification" -> "certification"
      [] a = "Native" -> "native" [] a = "Bilingual" -> "bilingual"
      [] a = "Full" -> "full" [] a = "Professional" -> "professional"
      [] a = "Fluent" -> "fluent" [] a = "Working" -> "working"
      [] a = "Limited" -> "limited" [] a = "Elementary" -> "elementary"
      [] a = "Basic" -> "basic" [] a = "Proficiency" -> "proficiency"
      [] a = "Go" -> "go" [] a = "CLI" -> "cli" [] a = "FS_" -> "fs_"
      [] OTHER -> a

\* strings.ToLower
ToLower(s) == MapSeq(s, ToLowerAtom)

formatTimePeriodDate(d) ==
    IF d.year > 0
    THEN IF d.month > 0
         THEN (IF d.month < 10 THEN <<"0">> ELSE << >>)
                 \o <<ToString(d.month), "/", ToString(d.year)>>
         ELSE <<ToString(d.year)>>
    ELSE << >>

StrOr(o, old) == IF IsSome(o) THEN Get(o) ELSE old
NonEmptyOr(o, old) == IF IsSome(o) /\ Get(o) # << >> THEN Get(o) ELSE old

\* dateRange.start / .end, then timePeriod.startDate / .endDate over it
\* (scraper.go:1014-1029, 1068-1083)
voyagerDate(data, rangeKey, periodKey) ==
    LET a == IF IsSome(data.dateRange) /\ IsSome(Get(data.dateRange)[rangeKey])
             THEN formatTimePeriodDate(Get(Get(data.dateRange)[rangeKey])) ELSE << >>
    IN IF IsSome(data.timePeriod) /\ IsSome(Get(data.timePeriod)[periodKey])
       THEN formatTimePeriodDate(Get(Get(data.timePeriod)[periodKey])) ELSE a

\* companyName / schoolName: a string, else the nested object's name, and the
\* "text" of a companyName object over both (scraper.go:991-1005, 1042-1056)
voyagerName(nameField, nested) ==
    LET a == IF nameField.k = "str" THEN nameField.s ELSE << >>
        b == IF IsSome(nested) /\ IsSome(Get(nested).name) /\ a = << >>
             THEN Get(Get(nested).name) ELSE a
    IN IF nameField.k = "obj" /\ IsSome(nameField.text) THEN Get(nameField.text) ELSE b

voyagerProfile(data, p) ==
    LET q == [p EXCEPT
                !.FirstName = NonEmptyOr(data.firstName, @),
                !.LastName = NonEmptyOr(data.lastName, @),
                !.Headline = NonEmptyOr(data.headline, @),
                !.Summary = NonEmptyOr(data.summary, @),
                !.Location = NonEmptyOr(data.locationName, @)]
        r == [q EXCEPT
                !.Location = IF @ = << >> THEN NonEmptyOr(data.geoLocationName, @) ELSE @]
    IN [r EXCEPT
          !.Location = IF @ = << >> /\ IsSome(data.geoLocation)
                       THEN NonEmptyOr(Get(data.geoLocation).geoLocationName, @) ELSE @]

voyagerPosition(data, p) ==
    LET exp == [Title |-> StrOr(data.title, << >>),
                Company |-> voyagerName(data.companyName, data.company),
                Location |-> StrOr(data.locationName, << >>),
                StartDate |-> voyagerDate(data, "start", "startDate"),
                EndDate |-> voyagerDate(data, "end", "endDate"),
                Description |-> StrOr(data.description, << >>)]
    IN IF exp.Company # << >> \/ exp.Title # << >>
       THEN [p EXCEPT !.Experience = Append(@, exp)] ELSE p

voyagerEducation(data, p) ==
    LET edu == [School |-> voyagerName(data.schoolName, data.school),
                Degree |-> StrOr(data.degreeName, << >>),
                Field |-> StrOr(data.fieldOfStudy, << >>),
                StartDate |-> voyagerDate(data, "start", "startDate"),
                EndDate |-> voyagerDate(data, "end", "endDate"),
                Description |-> StrOr(data.description, << >>)]
    IN IF edu.School # << >> THEN [p EXCEPT !.Education = Append(@, edu)] ELSE p

voyagerSkill(data, p) ==
    IF IsSome(data.name) /\ Get(data.name) # << >>
    THEN [p EXCEPT !.Skills = Append(@, Get(data.name))] ELSE p

voyagerLanguage(data, p) ==
    IF IsSome(data.name) /\ Get(data.name) # << >>
    THEN [p EXCEPT !.Languages =
            Append(@, [Name |-> Get(data.name),
                       Proficiency |-> StrOr(data.proficiency, << >>)])]
    ELSE p

voyagerCertification(data, p) ==
    IF IsSome(data.name) /\ Get(data.name) # << >>
    THEN [p EXCEPT !.Certifications =
            Append(@, [Name |-> Get(data.name),
                       Organization |-> StrOr(data.authority, << >>),
                       IssueDate |->
                          IF IsSome(data.timePeriod) /\ IsSome(Get(data.timePeriod).startDate)
                          THEN formatTimePeriodDate(Get(Get(data.timePeriod).startDate))
                          ELSE << >>])]
    ELSE p

\* a switch that looks for a skill first
voyagerCategory_SkillFirst(data) ==
    IF Contains(ToLower(data.type), <<"skill">>) THEN "skill" ELSE "profile"

\* the case of the switch at scraper.go:956 the entry takes: the first that matches
voyagerCategory(data) ==
    LET typeField == data.type
        entityUrn == data.urn
        typeLower == ToLower(typeField)
        urnLower == ToLower(entityUrn)
    IN IF Contains(typeLower, <<"profile">>) /\ ~Contains(typeLower, <<"position">>)
             /\ ~Contains(typeLower, <<"education">>)
       THEN "profile"
       ELSE IF Contains(typeLower, <<"position">>)
             \/ Contains(urnLower, <<"profile", "position">>)
             \/ Contains(urnLower, <<"fs_", "position">>)
       THEN "position"
       ELSE IF Contains(typeLower, <<"education">>)
             \/ Contains(urnLower, <<"profile", "education">>)
             \/ Contains(urnLower, <<"fs_", "education">>)
       THEN "education"
       ELSE IF Contains(typeLower, <<"skill">>) \/ Contains(urnLower, <<"fs_", "skill">>)
       THEN "skill"
       ELSE IF Contains(typeField, <<"Language">>)
             \/ Contains(entityUrn, <<"fs_", "language">>)
       THEN "language"
       ELSE IF Contains(typeField, <<"Certification">>)
             \/ Contains(entityUrn, <<"fs_", "certification">>)
       THEN "certification"
       ELSE "none"

extractFromVoyagerData(data, p) ==
    LET c == voyagerCategory(data)
    IN CASE c = "profile" -> voyagerProfile(data, p)
         [] c = "position" -> voyagerPosition(data, p)
         [] c = "education" -> voyagerEducation(data, p)
         [] c = "skill" -> voyagerSkill(data, p)
         [] c = "language" -> voyagerLanguage(data, p)
         [] c = "certification" -> voyagerCertification(data, p)
         [] OTHER -> p

\* the loop over an "included" list (scraper.go:291-295, 908-912, 930-932)
RECURSIVE extractIncluded(_, _)
extractIncluded(items, p) ==
    IF items = << >> THEN p
    ELSE extractIncluded(Tail(items), extractFromVoyagerData(Head(items), p))



(***************************************************************************)
(* The pages and payloads the model reads.                                 *)
(***************************************************************************)
Handles == {<<"a", "d", "A">>, <<"j", "o", "-", "d", "O", "-", "x">>}

NoMember == [description |-> None, startDate |-> None, endDate |-> None]

WorkAcme ==
    [name |-> Some(<<"Acme">>), location |-> Some(<<"Paris">>),
     member |-> Some([description |-> Some(<<"Dev">>), startDate |-> Some(JNum(2020)),
                      endDate |-> None])]
WorkMasked ==
    [name |-> Some(<<"Gl", "***">>), location |-> Some(<<"Lyon">>),
     member |-> Some([description |-> Some(<<"Lead">>),
                      startDate |-> Some(JStr(<<"2019">>)),
                      endDate |-> Some(JStr(<<"2021">>))])]
WorkInitech ==
    [name |-> Some(<<"Initech">>), location |-> None,
     member |-> Some([description |-> Some(<<"***">>), startDate |-> None,
                      endDate |-> None])]
SchoolMIT ==
    [name |-> Some(<<"MIT">>), location |-> None,
     member |-> Some([description |-> Some(<<"BSc">>), startDate |-> Some(JNum(2010)),
                      endDate |-> Some(JNum(2014))])]
SchoolMasked ==
    [name |-> Some(<<"***">>), location |-> None,
     member |-> Some([description |-> Some(<<"MSc">>), startDate |-> Some(JNum(2014)),
                      endDate |-> None])]

NoTitle == [k |-> "none", s |-> << >>, l |-> << >>]
TitleStr(s) == [k |-> "str", s |-> s, l |-> << >>]
TitleList(l) == [k |-> "list", s |-> << >>, l |-> l]

NoRecord ==
    [type |-> <<"Person">>, name |-> None, description |-> None, locality |-> None,
     worksFor |-> None, alumniOf |-> None, knowsLanguage |-> None, knowsAbout |-> None,
     jobTitle |-> NoTitle]

LDNames == {None, Some(<<"Ada", " ", "Lovelace">>), Some(<<"Bob">>)}
LDDescriptions == {None, Some(<<"Hi", "<br>", "there">>)}
LDLocalities == {None, Some(<<"Paris">>), Some(<<"Lyon">>)}
LDJobTitles == {NoTitle, TitleStr(<<"Engineer">>), TitleStr(<<"***">>),
                TitleList(<< <<"***", " ", "at", " ", "X">>, <<"CTO">> >>)}
LDWorks == {None, Some(<<WorkAcme>>), Some(<<WorkMasked>>),
            Some(<<WorkMasked, WorkInitech>>), Some(<<WorkAcme, WorkAcme>>)}
LDAlumni == {None, Some(<<SchoolMIT>>), Some(<<SchoolMasked, SchoolMIT>>)}

\* records that carry the name and the summary, records that carry the place
\* and the title, records that carry affiliations, and one record of another
\* schema type
ScalarRecords ==
    {[NoRecord EXCEPT !.name = n, !.description = d] :
        n \in LDNames, d \in LDDescriptions}
    \cup {[NoRecord EXCEPT !.locality = a, !.jobTitle = j] :
        a \in LDLocalities, j \in LDJobTitles}
ListRecords ==
    {[NoRecord EXCEPT !.type = << >>, !.worksFor = w, !.alumniOf = s] :
        w \in LDWorks, s \in LDAlumni}
    \cup {[NoRecord EXCEPT !.knowsLanguage = Some(<<Some(<<"French">>), None, Some(<< >>)>>),
                           !.knowsAbout = Some(<< <<"Go">>, << >> >>)]}
OtherRecords ==
    {[NoRecord EXCEPT !.type = <<"Organization">>, !.name = Some(<<"Acme">>),
                      !.locality = Some(<<"Paris">>), !.worksFor = Some(<<WorkAcme>>)]}
LDRecords == ScalarRecords \cup ListRecords \cup OtherRecords

\* the records an "@graph" block is made of
GraphRecords ==
    {[NoRecord EXCEPT !.name = Some(<<"Bob">>), !.locality = Some(<<"Lyon">>)],
     [NoRecord EXCEPT !.type = << >>, !.worksFor = Some(<<WorkAcme>>)],
     [NoRecord EXCEPT !.type = <<"Organization">>, !.name = Some(<<"Acme">>)]}

SeqsUpTo(S, n) == UNION {[1..k -> S] : k \in 0..n}

LDBlocks ==
    {[k |-> "single", items |-> <<r>>] : r \in LDRecords}
    \cup {[k |-> "graph", items |-> g] : g \in SeqsUpTo(GraphRecords, MaxGraph)}
    \cup {[k |-> "invalid", items |-> << >>]}

MetaDescriptions == {None, Some(<<"R", "&", "amp;", "D">>), Some(<<"&", "amp;", "lt;">>)}

MetaTags ==
    {[ogTitle |-> t, ogDescription |-> d, geo |-> g] :
        t \in {None, Some(<<"Solo">>),
               Some(<<"Cy", " ", "Young", " ", "-", " ", "Pilot", " ", " ", "|", " ",
                      "LinkedIn">>)},
        d \in MetaDescriptions,
        g \in {None, Some(<<"Oslo">>)}}

\* what cleanHTMLEntities can return for each description, over the map orders
CleanOutcomes ==
    [d \in MetaDescriptions |->
        {cleanHTMLEntities(StrOr(d, << >>), o) : o \in MapOrders}]

ContentSpans ==
    {<<a, b>> : a \in {None, Some(<<" ", "Berlin", " ">>), Some(<<"a", "@", "b">>)},
                b \in {None, Some(<<"Rome">>)}}

NoName == [k |-> "none", s |-> << >>, text |-> None]
NameStr(s) == [k |-> "str", s |-> s, text |-> None]
NameObj(t) == [k |-> "obj", s |-> << >>, text |-> t]

NoEntry ==
    [type |-> << >>, urn |-> << >>, firstName |-> None, lastName |-> None,
     headline |-> None, summary |-> None, locationName |-> None,
     geoLocationName |-> None, geoLocation |-> None, title |-> None,
     companyName |-> NoName, company |-> None, description |-> None,
     dateRange |-> None, timePeriod |-> None, schoolName |-> NoName, school |-> None,
     degreeName |-> None, fieldOfStudy |-> None, name |-> None, proficiency |-> None,
     authority |-> None]

VoyagerEntries ==
    {[NoEntry EXCEPT !.type = <<"com.linkedin.voyager.", "Profile">>,
                     !.firstName = Some(<<"Grace">>), !.lastName = Some(<<"Hopper">>),
                     !.headline = Some(<<"Admiral">>),
                     !.geoLocationName = Some(<<"NYC">>)],
     [NoEntry EXCEPT !.type = <<"com.linkedin.voyager.", "Profile">>,
                     !.lastName = Some(<<"Hopper">>), !.summary = Some(<<"Navy">>),
                     !.locationName = Some(<<"Arlington">>)],
     [NoEntry EXCEPT !.type = <<"com.linkedin.voyager.", "Position">>,
                     !.title = Some(<<"Dev">>), !.companyName = NameStr(<<"Acme">>),
                     !.dateRange = Some([start |-> Some([year |-> 2020, month |-> 3]),
                                         end |-> None])],
     [NoEntry EXCEPT !.urn = <<"urn:li:", "fs_", "education", ":1">>,
                     !.schoolName = NameObj(Some(<<"MIT">>)),
                     !.timePeriod = Some([startDate |-> Some([year |-> 2010, month |-> 0]),
                                          endDate |-> None])],
     [NoEntry EXCEPT !.type = <<"com.linkedin.voyager.", "Skill">>,
                     !.name = Some(<<"Go">>)],
     [NoEntry EXCEPT !.type = <<"com.linkedin.voyager.", "Language">>,
                     !.name = Some(<<"French">>),
                     !.proficiency = Some(<<"Native">>)],
     [NoEntry EXCEPT !.type = <<"com.linkedin.voyager.", "Certification">>,
                     !.name = Some(<<"CKA">>), !.authority = Some(<<"CNCF">>)],
     [NoEntry EXCEPT !.type = <<"com.linkedin.voyager.", "Badge">>,
                     !.name = Some(<<"Top">>)]}

IncludedLists == SeqsUpTo(VoyagerEntries, MaxIncluded)

(***************************************************************************)
(* parseLinkedInHTML (scraper.go:311-361), run twice on one body: every    *)
(* step reads one piece of the body and applies it to both runs.           *)
(***************************************************************************)
\* extractFromAuthenticatedPage (scraper.go:889-935): the entries of the
\* "included" lists the two patterns find, as json.Unmarshal decodes them
ParseAuthPage(Lists) ==
    /\ pc = "p_auth"
    /\ \E items \in Lists :
          /\ profile' = extractIncluded(items, profile)
          /\ twin' = extractIncluded(items, twin)
          /\ consumed' = [step |-> "auth"]
    /\ pc' = "p_ld"
    /\ UNCHANGED <<nblocks, initVars, fetchVars, urlVars, githubVars, commandVars, serveVars, callVars>>

\* one turn of the loop over the JSON-LD blocks (scraper.go:323-341)
ParseJSONLD(Blocks) ==
    /\ pc = "p_ld"
    /\ nblocks < MaxBlocks
    /\ \E block \in Blocks :
          /\ profile' = extractBlock(block, profile)
          /\ twin' = extractBlock(block, twin)
          /\ consumed' = [step |-> "jsonld", block |-> block]
    /\ nblocks' = nblocks + 1
    /\ UNCHANGED <<pc, initVars, fetchVars, urlVars, githubVars, commandVars, serveVars, callVars>>

\* after the last block: extractFromMetaTags (scraper.go:344)
ParseMetaTags(Tags) ==
    /\ pc = "p_ld"
    /\ \E tags \in Tags :
       \E c1 \in CleanOutcomes[tags.ogDescription], c2 \in CleanOutcomes[tags.ogDescription] :
          /\ profile' = extractFromMetaTags(tags, profile, c1)
          /\ twin' = extractFromMetaTags(tags, twin, c2)
          /\ consumed' = [step |-> "meta"]
    /\ pc' = "p_content"
    /\ UNCHANGED <<nblocks, initVars, fetchVars, urlVars, githubVars, commandVars, serveVars, callVars>>

\* extractFromHTMLContent, the name made from the handle, and the return
\* (scraper.go:347-360)
ParseContent(Spans) ==
    /\ pc = "p_content"
    /\ \E spans \in Spans :
          /\ profile' = nameFromUsername(username, extractFromHTMLContent(spans, profile))
          /\ twin' = nameFromUsername(username, extractFromHTMLContent(spans, twin))
          /\ consumed' = [step |-> "content"]
    /\ pc' = "parsed"
    /\ UNCHANGED <<nblocks, initVars, fetchVars, urlVars, githubVars, commandVars, serveVars, callVars>>

\* the state of the variables a specification does not use
IdleInit == force = FALSE /\ file = [k |-> "absent"] /\ linkedinURL = << >> /\ cv = None
IdleFetch ==
    /\ csrf = << >> /\ vprofile = None /\ verr = "" /\ requests = << >>
    /\ result = None /\ err = << >>
IdleParse ==
    /\ profile = EmptyProfile /\ twin = EmptyProfile
    /\ consumed = [step |-> "none"] /\ nblocks = 0
IdleURL == urlIn = << >> /\ urlOut = [username |-> << >>, err |-> ""]
IdleGithub ==
    /\ api = << >> /\ count = 0 /\ projects = [projects |-> << >>, err |-> ""]
    /\ apiStatus = << >>

IdleCommands ==
    /\ cmd = "" /\ args = << >> /\ gen = << >> /\ env = << >>
    /\ out = [dir |-> FALSE, html |-> FALSE, pdf |-> FALSE]
    /\ touched = {} /\ tried = << >> /\ lastErr = ""
    /\ gerr = [msg |-> "", wraps |-> ""]

IdleWatch == wpc = "" /\ wlast = 0 /\ wgen = 0
IdleStop == sig = FALSE /\ ctx = FALSE /\ spc = "" /\ http = "" /\ mainpc = ""
IdleHist ==
    /\ detected = 0 /\ pending = FALSE /\ edits = << >> /\ lastCV = << >>
    /\ regens = [started |-> 0, failed |-> 0, stored |-> 0, changes |-> 0, own |-> FALSE,
                 last |-> "", tokenDoc |-> 0]
IdleServe ==
    /\ src = << >> /\ doc = 0 /\ lastModTime = 0 /\ clock = 0
    /\ mu = << >> /\ hpc = << >>
    /\ IdleWatch /\ IdleStop /\ IdleHist

IdleRepos == reqPage = 0 /\ collected = << >> /\ asked = << >>

IdleCall == callIn = << >> /\ callOut = << >> /\ IdleRepos

\* FetchProfile(username): parseLinkedInHTML(body, username, false)
InitParse ==
    /\ pc = "p_ld"
    /\ cookie = << >>
    /\ username \in Handles
    /\ IdleInit /\ IdleFetch /\ IdleParse /\ IdleURL /\ IdleGithub /\ IdleCommands /\ IdleServe /\ IdleCall

NextParse ==
    \/ ParseJSONLD(LDBlocks)
    \/ ParseMetaTags(MetaTags)
    \/ ParseContent(ContentSpans)

SpecParse == InitParse /\ [][NextParse]_vars



(***************************************************************************)
(* Properties of the unauthenticated cascade, checked under SpecParse.     *)
(***************************************************************************)
\* a step of parseLinkedInHTML's cascade: a JSON-LD block, the meta tags, or the
\* content scan with the return
CascadeStep == pc \in {"p_ld", "p_content"} /\ pc' \in {"p_ld", "p_content", "parsed"}

\* the step ParseJSONLD took: consumed' is the block it read
JSONLDStep == pc = "p_ld" /\ pc' = "p_ld" /\ nblocks' = nblocks + 1

\* the records of a block that extractFromJSONLD does not skip
PersonRecords(block) ==
    SelectSeq(block.items, LAMBDA r : r.type = <<"Person">> \/ r.type = << >>)

RECURSIVE Affiliations(_, _)
Affiliations(records, key) ==
    IF records = << >> THEN << >>
    ELSE (IF IsSome(Head(records)[key]) THEN Get(Head(records)[key]) ELSE << >>)
            \o Affiliations(Tail(records), key)

NameIsMasked(w) == IsSome(w.name) /\ Contains(Get(w.name), <<"***">>)
NameIsUsable(w) == IsSome(w.name) /\ Get(w.name) # << >> /\ ~NameIsMasked(w)

Added(list, list2) == SubSeq(list2, Len(list) + 1, Len(list2))

\* C2: within one run of the cascade, a scalar field that holds a non-empty value
\* is not changed by any later step (JSON-LD record, meta tags, content scan).
C2_FirstWriterWins ==
    [][CascadeStep =>
         \A f \in ScalarFields : profile[f] # << >> => profile'[f] = profile[f]]_vars

\* C5 as stated: an affiliation whose name holds the masking marker still yields
\* an entry, with an empty company/school name and the record's other fields.
C5_MaskedStillConsidered ==
    [][JSONLDStep =>
         /\ \A i \in DOMAIN Affiliations(PersonRecords(consumed'.block), "worksFor") :
              LET w == Affiliations(PersonRecords(consumed'.block), "worksFor")[i]
              IN NameIsMasked(w) =>
                   \E e \in {Added(profile.Experience, profile'.Experience)[k] :
                                k \in DOMAIN Added(profile.Experience, profile'.Experience)} :
                       e.Company = << >> /\ e.Location = StrOr(w.location, << >>)
         /\ \A i \in DOMAIN Affiliations(PersonRecords(consumed'.block), "alumniOf") :
              LET w == Affiliations(PersonRecords(consumed'.block), "alumniOf")[i]
              IN NameIsMasked(w) =>
                   \E e \in {Added(profile.Education, profile'.Education)[k] :
                                k \in DOMAIN Added(profile.Education, profile'.Education)} :
                       e.School = << >>]_vars

\* C5 amended: the entries a JSON-LD block adds are, in order, those of its
\* affiliations whose name is present, non-empty and free of the masking marker;
\* an affiliation with a masked name adds no entry, so none of its other fields
\* reaches the profile.
C5_MaskedDropped ==
    [][JSONLDStep =>
         LET works == SelectSeq(Affiliations(PersonRecords(consumed'.block), "worksFor"),
                                NameIsUsable)
             schools == SelectSeq(Affiliations(PersonRecords(consumed'.block), "alumniOf"),
                                  NameIsUsable)
             exps == Added(profile.Experience, profile'.Experience)
             edus == Added(profile.Education, profile'.Education)
         IN /\ Len(exps) = Len(works)
            /\ \A i \in DOMAIN exps :
                  /\ exps[i].Company = Get(works[i].name)
                  /\ exps[i].Location = StrOr(works[i].location, << >>)
            /\ Len(edus) = Len(schools)
            /\ \A i \in DOMAIN edus : edus[i].School = Get(schools[i].name)
            /\ SubSeq(profile'.Experience, 1, Len(profile.Experience)) = profile.Experience
            /\ SubSeq(profile'.Education, 1, Len(profile.Education)) = profile.Education]_vars

\* C5 witness: a block with a masked and a named affiliation was read, and only
\* the named one is in the profile.
C5_Witness ==
    /\ consumed.step = "jsonld"
    /\ consumed.block.k = "single"
    /\ consumed.block.items[1].worksFor = Some(<<WorkMasked, WorkInitech>>)
    /\ consumed.block.items[1].alumniOf = None
    /\ Len(profile.Experience) = 1
    /\ profile.Experience[1].Company = <<"Initech">>

\* C6: no company name and no school name of the profile holds the masking marker.
C6_NoMaskedName ==
    /\ \A i \in DOMAIN profile.Experience : ~Contains(profile.Experience[i].Company, <<"***">>)
    /\ \A i \in DOMAIN profile.Education : ~Contains(profile.Education[i].School, <<"***">>)

\* C6 witness: a block with a masked and a named company, a masked and a named
\* school has been read, and the profile holds an entry of each list.
C6_Witness ==
    /\ consumed.step = "jsonld"
    /\ consumed.block.k = "single"
    /\ consumed.block.items[1].worksFor = Some(<<WorkMasked, WorkInitech>>)
    /\ consumed.block.items[1].alumniOf = Some(<<SchoolMasked, SchoolMIT>>)
    /\ \E i \in DOMAIN profile.Experience : profile.Experience[i].Company = <<"Initech">>
    /\ \E i \in DOMAIN profile.Education : profile.Education[i].School = <<"MIT">>

\* C7: two runs of the cascade over the same body return identical profiles.
C7_Deterministic == pc = "parsed" => profile = twin

\* C8: the experience list and the education list of the returned profile hold
\* no entry twice.
C8_NoDuplicates ==
    pc = "parsed" =>
        /\ \A i, j \in DOMAIN profile.Experience :
              i # j => profile.Experience[i] # profile.Experience[j]
        /\ \A i, j \in DOMAIN profile.Education :
              i # j => profile.Education[i] # profile.Education[j]



(***************************************************************************)
(* The project importer (internal/github, part_005:65-248).                *)
(***************************************************************************)
DefaultCount == 5
PerPage == 100
MaxPages == 10

\* the page the listing API answers with: per_page entries from the account's list
reposPage(all, page) ==
    SubSeq(all, (page - 1) * PerPage + 1, Min(page * PerPage, Len(all)))

\* what the API answers to request number page: status[1] to the first request,
\* status[2] to every later one; 200, another code, or 0 for a transport or
\* decoding error
statusOf(status, page) == IF page = 1 THEN status[1] ELSE status[2]

\* fetchUserRepos (part_005:177-237), from request number page on
RECURSIVE fetchUserRepos(_, _, _, _)
fetchUserRepos(all, status, page, allRepos) ==
    IF statusOf(status, page) = 0 THEN [repos |-> << >>, err |-> "transport"]
    ELSE IF statusOf(status, page) = 404 THEN [repos |-> << >>, err |-> "not found"]
    ELSE IF statusOf(status, page) # 200 THEN [repos |-> << >>, err |-> "status"]
    ELSE LET rs == reposPage(all, page)
         IN IF Len(rs) = 0 THEN [repos |-> allRepos, err |-> ""]
            ELSE IF Len(rs) < PerPage THEN [repos |-> allRepos \o rs, err |-> ""]
            ELSE IF page + 1 > MaxPages THEN [repos |-> allRepos \o rs, err |-> ""]
            ELSE fetchUserRepos(all, status, page + 1, allRepos \o rs)

\* containsIgnoreCase (part_005:240-248)
containsIgnoreCase(slice, str) ==
    \E i \in DOMAIN slice : ToLower(slice[i]) = ToLower(str)

\* the technologies of a project: the language, then the topics not yet there
\* (part_005:113-124)
RECURSIVE addTopics(_, _)
addTopics(techs, topics) ==
    IF topics = << >> THEN techs
    ELSE addTopics(IF containsIgnoreCase(techs, Head(topics)) THEN techs
                   ELSE Append(techs, Head(topics)),
                   Tail(topics))

toProject(repo) ==
    [Name |-> repo.Name, Description |-> repo.Description, URL |-> repo.HTMLURL,
     Stars |-> repo.StargazersCount,
     Technologies |->
        addTopics(IF repo.Language # << >> THEN <<repo.Language>> ELSE << >>, repo.Topics)]

\* keepRepo that lets archived repositories through
keepRepo_ForksOnly(repo) == ~repo.Fork

\* the filter of part_005:83-87
keepRepo(repo) == ~repo.Fork /\ ~repo.Archived

\* part_005:67-69
effectiveCount(n) == IF n <= 0 THEN DefaultCount ELSE n

\* sort.Slice (part_005:94-96) is not a stable sort: it leaves a slice ordered by
\* the less function, elements that compare equal in any order.  Every such
\* arrangement of rs.
RECURSIVE sortedArrangements(_, _)
sortedArrangements(rs, idx) ==
    IF idx = {} THEN {<< >>}
    ELSE LET top == {i \in idx :
                        \A j \in idx : ~(rs[j].StargazersCount > rs[i].StargazersCount)}
         IN UNION {{<<rs[i]>> \o t : t \in sortedArrangements(rs, idx \ {i})} : i \in top}

\* "Take top N" (part_005:99-101)
takeTop(rs, n) == IF Len(rs) > n THEN SubSeq(rs, 1, n) ELSE rs

\* what FetchTopProjects (part_005:66-134) can return
FetchTopProjects(all, status, n) ==
    LET fetched == fetchUserRepos(all, status, 1, << >>)
        ownRepos == SelectSeq(fetched.repos, keepRepo)
    IN IF fetched.err # ""
       THEN {[projects |-> << >>, err |-> fetched.err]}
       ELSE {[projects |-> MapSeq(takeTop(sorted, effectiveCount(n)), toProject), err |-> ""] :
                sorted \in sortedArrangements(ownRepos, DOMAIN ownRepos)}

\* accounts: the i-th repository is named after its place in the listing
RepoNames == <<"A", "B", "C", "D", "E", "F", "G", "H">>
RepoName(i) == IF i <= Len(RepoNames) THEN RepoNames[i] ELSE ToString(i)

Repository(i, stars, fork, archived) ==
    [Name |-> <<RepoName(i)>>,
     Description |-> <<"about", " ", RepoName(i)>>,
     HTMLURL |-> <<"https://github.com/u/", RepoName(i)>>,
     StargazersCount |-> stars, Fork |-> fork, Archived |-> archived,
     Language |-> IF i % 2 = 1 THEN <<"Go">> ELSE << >>,
     Topics |-> IF i % 3 = 0 THEN << <<"go">>, <<"CLI">>, <<"cli">> >> ELSE << >>]

RepoShapes == {10, 30} \X BOOLEAN \X BOOLEAN

Account(shapes) ==
    [i \in DOMAIN shapes |-> Repository(i, shapes[i][1], shapes[i][2], shapes[i][3])]

ExampleAccount ==
    Account(<< <<10, TRUE, FALSE>>, <<50, FALSE, FALSE>>, <<5, FALSE, TRUE>>,
               <<30, FALSE, FALSE>> >>)

\* an account whose listing takes a second request: one repository more than a
\* page holds, the i-th with i stars
LargeAccount == Account([i \in 1..(PerPage + 1) |-> <<i, FALSE, FALSE>>])

\* every account of up to MaxRepos repositories; accounts with one repository
\* more than the default count, none of them a fork or archived; the account
\* {A:10 fork, B:50, C:5 archived, D:30}; and the account of two pages
Accounts ==
    {Account(sh) : sh \in SeqsUpTo(RepoShapes, MaxRepos)}
    \cup {Account(sh) : sh \in [1..(DefaultCount + 1) -> {10, 30} \X {FALSE} \X {FALSE}]}
    \cup {ExampleAccount, LargeAccount}

Counts == (0 - 1)..MaxCount

ApiStatuses == {200, 404, 500, 0} \X {200, 404, 500, 0}

InitGithub ==
    /\ pc = "projects"
    /\ api \in Accounts
    /\ count \in Counts
    /\ projects = [projects |-> << >>, err |-> ""]
    /\ apiStatus = << >>
    /\ cookie = << >> /\ username = << >>
    /\ IdleInit /\ IdleFetch /\ IdleParse /\ IdleURL /\ IdleCommands /\ IdleServe /\ IdleCall

\* github.FetchTopProjects(username, count)
CallFetchTopProjects ==
    /\ pc = "projects"
    /\ \E status \in ApiStatuses :
          /\ apiStatus' = status
          /\ projects' \in FetchTopProjects(api, status, count)
    /\ pc' = "projects_done"
    /\ UNCHANGED <<api, count, initVars, fetchVars, parseVars, urlVars, commandVars, serveVars, callVars>>

NextGithub == CallFetchTopProjects

SpecGithub == InitGithub /\ [][NextGithub]_vars

\* the repositories of the account that are neither forks nor archived
Retained == SelectSeq(api, LAMBDA r : ~r.Fork /\ ~r.Archived)
Wanted == IF count <= 0 THEN 5 ELSE count
Returned == projects.projects

\* C10: FetchTopProjects returns min(N, retained) of the retained repositories,
\* each once, ordered by star count descending, none of the left out ones with
\* more stars than a returned one, no fork and no archived repository among
\* them, N being 5 when count <= 0.
C10_TopProjects ==
    (pc = "projects_done" /\ projects.err = "") =>
        /\ Len(Returned) = Min(Wanted, Len(Retained))
        /\ Len(Returned) <= Wanted
        /\ \A i \in DOMAIN Returned :
              \E k \in DOMAIN api :
                 /\ api[k].Name = Returned[i].Name
                 /\ api[k].StargazersCount = Returned[i].Stars
                 /\ api[k].HTMLURL = Returned[i].URL
                 /\ ~api[k].Fork /\ ~api[k].Archived
        /\ \A i, j \in DOMAIN Returned : i # j => Returned[i].Name # Returned[j].Name
        /\ \A i, j \in DOMAIN Returned : i < j => Returned[i].Stars >= Returned[j].Stars
        /\ \A k \in DOMAIN Retained :
              (\A i \in DOMAIN Returned : Returned[i].Name # Retained[k].Name) =>
                 \A i \in DOMAIN Returned : Returned[i].Stars >= Retained[k].StargazersCount

\* C10 witness: {A:10 fork, B:50, C:5 archived, D:30} with N = 2 yields [B, D].
C10_Witness ==
    /\ pc = "projects_done"
    /\ count = 2
    /\ Len(api) = 4
    /\ api[1].Fork /\ api[1].StargazersCount = 10
    /\ api[2].StargazersCount = 50
    /\ api[3].Archived /\ api[3].StargazersCount = 5
    /\ api[4].StargazersCount = 30
    /\ Len(Returned) = 2
    /\ Returned[1].Name = <<"B">>
    /\ Returned[2].Name = <<"D">>

\* rs with r put behind every element that has at least as many stars
RECURSIVE insertByStars(_, _)
insertByStars(rs, r) ==
    IF rs = << >> THEN <<r>>
    ELSE IF Head(rs).StargazersCount >= r.StargazersCount
         THEN <<Head(rs)>> \o insertByStars(Tail(rs), r)
         ELSE <<r>> \o rs

\* rs ordered by star count descending, equal counts as encountered
RECURSIVE stableByStars(_)
stableByStars(rs) ==
    IF rs = << >> THEN << >>
    ELSE insertByStars(stableByStars(SubSeq(rs, 1, Len(rs) - 1)), rs[Len(rs)])

\* C11: the ranking is stable: the returned projects are the first N of the
\* retained repositories ordered by star count descending, repositories with
\* the same star count in the order in which the listing API returned them.
C11_StableRanking ==
    (pc = "projects_done" /\ projects.err = "") =>
        LET ranked == takeTop(stableByStars(Retained), Wanted)
        IN /\ Len(Returned) = Len(ranked)
           /\ \A i \in DOMAIN Returned : Returned[i].Name = ranked[i].Name



(***************************************************************************)
(* Profile references (scraper.go:81-123).  A reference is a sequence of   *)
(* atoms none of which straddles a delimiter: a scheme with its colon, a   *)
(* slash, a host label, a path segment atom, a blank.                      *)
(***************************************************************************)
Slash == <<"/">>
SchemeAtoms == {"https:", "http:"}
HasPrefix(s, pre) == MatchAt(s, pre, 0)

\* strings.Trim(s, "/")
RECURSIVE TrimSlashes(_)
TrimSlashes(s) ==
    IF s # << >> /\ s[1] = "/" THEN TrimSlashes(Tail(s))
    ELSE IF s # << >> /\ s[Len(s)] = "/" THEN TrimSlashes(Upto(s, Len(s) - 1))
    ELSE s

\* net/url's Parse as ExtractUsernameFromURL uses it (scraper.go:92, 100), on
\* references without query, fragment, escapes, user information, or a colon
\* outside the scheme: the scheme is split off, a rest that does not begin with
\* a slash is opaque under a scheme and a path otherwise, and a rest that begins
\* with two slashes gives the authority up to the next slash.
urlParse(raw) ==
    LET hasScheme == raw # << >> /\ raw[1] \in SchemeAtoms
        scheme == IF hasScheme THEN <<raw[1]>> ELSE << >>
        rest == IF hasScheme THEN Tail(raw) ELSE raw
        authority == From(rest, 2)
        i == Index(authority, Slash)
    IN IF ~HasPrefix(rest, Slash) /\ hasScheme
       THEN [Scheme |-> scheme, Host |-> << >>, Path |-> << >>, Opaque |-> rest, err |-> ""]
       ELSE IF (hasScheme \/ ~HasPrefix(rest, <<"/", "/", "/">>)) /\ HasPrefix(rest, <<"/", "/">>)
       THEN [Scheme |-> scheme,
             Host |-> IF i >= 0 THEN Upto(authority, i) ELSE authority,
             Path |-> IF i >= 0 THEN From(authority, i) ELSE << >>,
             Opaque |-> << >>, err |-> ""]
       ELSE [Scheme |-> scheme, Host |-> << >>, Path |-> rest, Opaque |-> << >>, err |-> ""]

\* the loop of scraper.go:111-115 from index i (1-based here): the part after
\* the first "in" that has a successor
RECURSIVE afterIn(_, _)
afterIn(parts, i) ==
    IF i > Len(parts) THEN None
    ELSE IF parts[i] = <<"in">> /\ i + 1 <= Len(parts) THEN Some(parts[i + 1])
    ELSE afterIn(parts, i + 1)

\* pathParts that takes the whole path for a single part
pathParts_Unsplit(parsedURL) == <<TrimSlashes(parsedURL.Path)>>

\* scraper.go:107-108
pathParts(parsedURL) == Split(TrimSlashes(parsedURL.Path), Slash)

\* ExtractUsernameFromURL (scraper.go:82-123)
ExtractUsernameFromURL(input) ==
    LET trimmed == TrimSpace(input)
        first == urlParse(trimmed)
        withScheme == <<"https:", "/", "/">> \o trimmed
        parsedURL == IF first.Scheme = << >> THEN urlParse(withScheme) ELSE first
        parts == pathParts(parsedURL)
        found == afterIn(parts, 1)
    IN IF ~Contains(trimmed, <<"linkedin.com">>) THEN [username |-> trimmed, err |-> ""]
       ELSE IF first.err # "" THEN [username |-> << >>, err |-> "invalid URL"]
       ELSE IF first.Scheme = << >> /\ parsedURL.err # ""
            THEN [username |-> << >>, err |-> "invalid URL"]
       ELSE IF IsSome(found) THEN [username |-> Get(found), err |-> ""]
       ELSE IF Len(parts) = 1 /\ parts[1] # << >> THEN [username |-> parts[1], err |-> ""]
       ELSE [username |-> << >>, err |-> "could not extract username"]

\* what precedes the path: nothing (a bare reference), or the host with or
\* without "www.", with a scheme, with "//" alone, or with neither
Hosts == {<<"linkedin.com">>, <<"www.", "linkedin.com">>}
Prefixes ==
    {<< >>}
    \cup {pre \o h : pre \in {<< >>, <<"https:", "/", "/">>, <<"http:", "/", "/">>, <<"/", "/">>},
                     h \in Hosts}

\* path segments; the empty one gives two slashes in a row
Segments == {<< >>, <<"in">>, <<"company">>} \cup Handles

\* strings.Join(segs, "/")
RECURSIVE Join(_)
Join(segs) ==
    IF segs = << >> THEN << >>
    ELSE IF Len(segs) = 1 THEN Head(segs)
    ELSE Head(segs) \o Slash \o Join(Tail(segs))

Blanks == {<< >>, <<" ">>}
OptSlash == {<< >>, Slash}

References ==
    {b \o pre \o lead \o Join(segs) \o trail \o b :
        b \in Blanks, pre \in Prefixes, lead \in OptSlash, trail \in OptSlash,
        segs \in SeqsUpTo(Segments, MaxSegments)}

InitURL ==
    /\ pc = "url"
    /\ urlIn \in References
    /\ urlOut = [username |-> << >>, err |-> ""]
    /\ cookie = << >> /\ username = << >>
    /\ IdleInit /\ IdleFetch /\ IdleParse /\ IdleGithub /\ IdleCommands /\ IdleServe /\ IdleCall

\* linkedin.ExtractUsernameFromURL(linkedinURL)
CallExtractUsername ==
    /\ pc = "url"
    /\ urlOut' = ExtractUsernameFromURL(urlIn)
    /\ pc' = "url_done"
    /\ UNCHANGED <<urlIn, initVars, fetchVars, parseVars, githubVars, commandVars, serveVars, callVars>>

NextURL == CallExtractUsername

SpecURL == InitURL /\ [][NextURL]_vars

\* the references to a handle h that the contract names
ProfileForms(h) ==
    {h}
    \cup {scheme \o www \o <<"linkedin.com", "/", "in", "/">> \o h \o slash :
            scheme \in {<< >>, <<"https:", "/", "/">>, <<"http:", "/", "/">>},
            www \in {<< >>, <<"www.">>},
            slash \in {<< >>, <<"/">>}}

\* the path of a linkedin.com URL, None for any other reference
RefPath(ref) ==
    LET heads == {scheme \o www \o <<"linkedin.com">> :
                    scheme \in {<< >>, <<"https:", "/", "/">>, <<"http:", "/", "/">>},
                    www \in {<< >>, <<"www.">>}}
        fits == {hd \in heads : HasPrefix(ref, hd)}
        path == From(ref, Len(CHOOSE x \in fits : TRUE))
    IN IF fits = {} \/ ~(path = << >> \/ HasPrefix(path, Slash)) THEN None ELSE Some(path)

\* the non-empty components of a path
Components(path) == SelectSeq(Split(path, Slash), LAMBDA c : c # << >>)

\* C9: every form of a reference to a handle h (bare, or linkedin.com/in/h with
\* or without scheme, "www." and trailing slash) is normalised to h without an
\* error, and every linkedin.com URL with more than one path component and no
\* "/in/" in its path is answered with an error.
C9_Normalises ==
    pc = "url_done" =>
        /\ \A h \in Handles :
              urlIn \in ProfileForms(h) => urlOut = [username |-> h, err |-> ""]
        /\ LET path == RefPath(urlIn)
           IN (/\ IsSome(path)
               /\ Len(Components(Get(path))) > 1
               /\ ~Contains(Get(path), <<"/", "in", "/">>)) => urlOut.err # ""

\* C9 witness: a scheme-less "www." URL with a trailing slash has been
\* normalised to its handle.
C9_Witness ==
    /\ pc = "url_done"
    /\ \E h \in Handles :
          /\ urlIn = <<"www.", "linkedin.com", "/", "in", "/">> \o h \o <<"/">>
          /\ urlOut.username = h


(***************************************************************************)
(* models.CV as init builds it (part_001:183-277, scraper.go:759-885).     *)
(***************************************************************************)
TrimPrefix(s, pre) == IF HasPrefix(s, pre) THEN From(s, Len(pre)) ELSE s
TrimSuffix(s, suf) ==
    IF Len(s) >= Len(suf) /\ From(s, Len(s) - Len(suf)) = suf
    THEN Upto(s, Len(s) - Len(suf)) ELSE s

\* formatLinkedInURL (scraper.go:836-842)
formatLinkedInURL(url) ==
    TrimSuffix(TrimPrefix(TrimPrefix(TrimPrefix(url, <<"https:", "/", "/">>),
                                     <<"http:", "/", "/">>),
                          <<"www.">>),
               Slash)

\* mapProficiencyLevel (scraper.go:869-885)
mapProficiencyLevel(proficiency) ==
    LET low == ToLower(proficiency)
    IN IF Contains(low, <<"native">>) \/ Contains(low, <<"bilingual">>) THEN <<"Native">>
       ELSE IF Contains(low, <<"full", " ", "professional">>) \/ Contains(low, <<"fluent">>)
       THEN <<"Fluent (C1-C2)">>
       ELSE IF Contains(low, <<"professional", " ", "working">>) THEN <<"Professional (B2)">>
       ELSE IF Contains(low, <<"limited", " ", "working">>) THEN <<"Intermediate (B1)">>
       ELSE IF Contains(low, <<"elementary">>) THEN <<"Elementary (A2)">>
       ELSE low

toCVExperience(exp) ==
    [Company |-> exp.Company, Position |-> exp.Title, Location |-> exp.Location,
     StartDate |-> exp.StartDate, EndDate |-> exp.EndDate,
     Description |-> exp.Description,
     Highlights |-> IF exp.Description # << >> THEN Some(<< >>) ELSE None]

toCVEducation(edu) ==
    [Institution |-> edu.School, Degree |-> edu.Degree, Field |-> edu.Field,
     Location |-> << >>, StartDate |-> edu.StartDate, EndDate |-> edu.EndDate,
     Description |-> edu.Description]

toCVLanguage(lang) ==
    [Name |-> lang.Name, Level |-> mapProficiencyLevel(lang.Proficiency)]

toCVCertification(cert) ==
    [Name |-> cert.Name, Issuer |-> cert.Organization, Date |-> cert.IssueDate]

\* (*LinkedInProfile).ToCV (scraper.go:759-833)
ToCV(p, url) ==
    [Personal |->
        [FirstName |-> p.FirstName, LastName |-> p.LastName, Title |-> p.Headline,
         Email |-> <<"your.email@example.com">>, Phone |-> <<"+33 6 00 00 00 00">>,
         Location |-> p.Location, LinkedIn |-> formatLinkedInURL(url),
         GitHub |-> << >>, Website |-> << >>],
     Summary |-> p.Summary,
     Experience |-> MapSeq(p.Experience, toCVExperience),
     Education |-> MapSeq(p.Education, toCVEducation),
     Skills |-> IF Len(p.Skills) > 0
                THEN << [Category |-> <<"Skills">>, Items |-> p.Skills] >> ELSE << >>,
     Languages |-> MapSeq(p.Languages, toCVLanguage),
     Certifications |-> MapSeq(p.Certifications, toCVCertification),
     Projects |-> << >>,
     Interests |-> << >>]

\* createEmptyCV (part_001:184-277)
createEmptyCV ==
    [Personal |->
        [FirstName |-> <<"John">>, LastName |-> <<"Doe">>,
         Title |-> <<"Your Professional Title">>,
         Email |-> <<"your.email@example.com">>, Phone |-> <<"+1 000 000 0000">>,
         Location |-> <<"City, Country">>, LinkedIn |-> <<"linkedin.com/in/yourprofile">>,
         GitHub |-> <<"github.com/yourusername">>, Website |-> <<"yourwebsite.com">>],
     Summary |-> <<"Write a brief professional summary ...">>,
     Experience |->
        << [Company |-> <<"Company Name">>, Position |-> <<"Senior Position">>,
            Location |-> <<"City, Country">>, StartDate |-> <<"2022-01">>,
            EndDate |-> <<"present">>, Description |-> <<"Brief description ...">>,
            Highlights |-> Some(<< <<"Key achievement or responsibility 1">>,
                                   <<"Key achievement or responsibility 2">>,
                                   <<"Key achievement or responsibility 3">> >>)],
           [Company |-> <<"Previous Company">>, Position |-> <<"Position Title">>,
            Location |-> <<"City, Country">>, StartDate |-> <<"2019-06">>,
            EndDate |-> <<"2021-12">>, Description |-> <<"Brief description ...">>,
            Highlights |-> Some(<< <<"Key achievement or responsibility 1">>,
                                   <<"Key achievement or responsibility 2">> >>)] >>,
     Education |->
        << [Institution |-> <<"University Name">>, Degree |-> <<"Master's Degree">>,
            Field |-> <<"Field of Study">>, Location |-> <<"City, Country">>,
            StartDate |-> <<"2015">>, EndDate |-> <<"2019">>,
            Description |-> <<"Relevant coursework, honors, or achievements">>] >>,
     Skills |->
        << [Category |-> <<"Programming Languages">>,
            Items |-> << <<"Language 1">>, <<"Language 2">>, <<"Language 3">> >>],
           [Category |-> <<"Frameworks & Tools">>,
            Items |-> << <<"Framework 1">>, <<"Framework 2">>, <<"Tool 1">> >>],
           [Category |-> <<"Soft Skills">>,
            Items |-> << <<"Communication">>, <<"Leadership">>, <<"Problem Solving">> >>] >>,
     Languages |-> << [Name |-> <<"English">>, Level |-> <<"Native">>],
                      [Name |-> <<"French">>, Level |-> <<"Fluent (C1)">>] >>,
     Certifications |-> << [Name |-> <<"Certification Name">>,
                            Issuer |-> <<"Issuing Organization">>, Date |-> <<"2023">>] >>,
     Projects |-> << [Name |-> <<"Project Name">>,
                      Description |-> <<"Brief description of the project and your role">>,
                      URL |-> <<"github.com/username/project">>,
                      Technologies |-> << <<"Tech 1">>, <<"Tech 2">>, <<"Tech 3">> >>] >>,
     Interests |-> << <<"Interest 1">>, <<"Interest 2">>, <<"Interest 3">> >>]

\* github.ExtractUsernameFromURL (part_005:251-269)
githubExtractUsernameFromURL(input) ==
    LET trimmed == TrimSuffix(TrimSpace(input), Slash)
        parts == Split(trimmed, <<"github.com", "/">>)
    IN IF Contains(trimmed, <<"github.com", "/">>) /\ Len(parts) > 1
       THEN Split(parts[2], Slash)[1]
       ELSE trimmed

\* the projects init appends and the link it sets (part_001:151-166)
cvProject(proj) ==
    [Name |-> proj.Name, Description |-> proj.Description, URL |-> proj.URL,
     Technologies |-> proj.Technologies]

withProjects(c, projs, user) ==
    [c EXCEPT !.Projects = @ \o MapSeq(projs, cvProject),
              !.Personal.GitHub =
                  IF @ = << >> \/ @ = <<"github.com/yourusername">>
                  THEN <<"github.com/">> \o user ELSE @]



(***************************************************************************)
(* resumectl init (part_001:81-181) with FetchProfileWithAuth              *)
(* (scraper.go:132-178) and fetchViaVoyagerAPI (scraper.go:181-308).       *)
(***************************************************************************)
\* the --linkedin arguments, the empty one for a run without the flag
LinkedinArgs ==
    {<< >>,
     <<"https:", "/", "/", "www.", "linkedin.com", "/", "in", "/", "a", "d", "A", "/">>,
     <<"https:", "/", "/", "linkedin.com", "/", "company", "/", "a", "d", "A">>}

Cookies == {<< >>, <<"AQED">>}

Quote == "\""

\* strings.Trim(s, "\"")
RECURSIVE TrimQuotes(_)
TrimQuotes(s) ==
    IF s # << >> /\ s[1] = Quote THEN TrimQuotes(Tail(s))
    ELSE IF s # << >> /\ s[Len(s)] = Quote THEN TrimQuotes(Upto(s, Len(s) - 1))
    ELSE s

\* the anti-forgery token (scraper.go:197-227): the JSESSIONID response cookie,
\* else the capture of the first body pattern, else that of the second, each
\* without its surrounding quotes
findToken(jar, first, second) ==
    LET a == IF IsSome(jar) THEN TrimQuotes(Get(jar)) ELSE << >>
        b == IF a = << >> /\ IsSome(first) THEN TrimQuotes(Get(first)) ELSE a
    IN IF b = << >> /\ IsSome(second) THEN TrimQuotes(Get(second)) ELSE b

JarValues == {None, Some(<<Quote, "ajax:1", Quote>>), Some(<< >>)}
FirstCaptures == {None, Some(<<"ajax:2">>)}
SecondCaptures == {None, Some(<<Quote, "ajax:3", Quote>>), Some(<<Quote, Quote>>)}

\* statuses other than 200 a request is answered with
FailureStatuses == {404, 999}
StatusOK == 200

\* a request as sent, with the status of its response, 0 when none came
Request(to, token, status) ==
    [to |-> to, cookie |-> cookie, csrf |-> token, status |-> status]

\* a runInit that overwrites whatever is there
refuses_Never(f, forced) == FALSE

\* os.Stat(outputFile) finds the file and --force is not given (part_001:83)
refuses(f, forced) == f.k # "absent" /\ ~forced

\* runInit refuses to overwrite (part_001:83-85)
InitRefuse ==
    /\ pc = "init"
    /\ refuses(file, force)
    /\ pc' = "fatal_exists"
    /\ UNCHANGED <<initVars, fetchVars, parseVars, urlVars, githubVars, commandVars, serveVars, callVars>>

\* runInit up to the call of FetchProfileWithAuth / FetchProfile (part_001:87-108)
InitStart ==
    /\ pc = "init"
    /\ ~refuses(file, force)
    /\ \E arg \in LinkedinArgs, c \in Cookies :
          LET got == ExtractUsernameFromURL(arg)
          IN /\ linkedinURL' = arg
             /\ IF arg = << >>
                THEN /\ cv' = Some(createEmptyCV)
                     /\ pc' = "github"
                     /\ UNCHANGED <<cookie, username>>
                ELSE /\ username' = IF got.err # "" THEN arg ELSE got.username
                     /\ cookie' = c
                     /\ pc' = IF c # << >> THEN "voyager_page" ELSE "html"
                     /\ UNCHANGED cv
    /\ UNCHANGED <<force, file, csrf, vprofile, verr, requests, result, err,
                   parseVars, urlVars, githubVars, commandVars, serveVars, callVars>>

\* fetchViaVoyagerAPI, the page request and the token (scraper.go:185-231)
VoyagerPage ==
    /\ pc = "voyager_page"
    /\ \/ /\ requests' = Append(requests, Request("page", << >>, 0))
          /\ verr' = "request"
          /\ pc' = "voyager_done"
          /\ UNCHANGED csrf
       \/ \E jar \in JarValues, first \in FirstCaptures, second \in SecondCaptures :
             LET jsessionid == findToken(jar, first, second)
             IN /\ requests' = Append(requests, Request("page", << >>, StatusOK))
                /\ csrf' = jsessionid
                /\ verr' = IF jsessionid = << >> THEN "could not find CSRF token" ELSE ""
                /\ pc' = IF jsessionid = << >> THEN "voyager_done" ELSE "voyager_api"
    /\ UNCHANGED <<cookie, username, vprofile, result, err,
                   initVars, parseVars, urlVars, githubVars, commandVars, serveVars, callVars>>



\* the entries the structured-data API answers with
ApiEntries ==
    {e \in VoyagerEntries :
        voyagerCategory(e) \in {"profile", "position"}}

ApiElements == {None} \cup {Some(e) : e \in {x \in VoyagerEntries : voyagerCategory(x) = "skill"}}

\* the decoded response (scraper.go:288-305): the "included" entries, then the
\* first of data.elements
apiProfile(included, element) ==
    LET p == extractIncluded(included, EmptyProfile)
    IN IF IsSome(element) THEN extractFromVoyagerData(Get(element), p) ELSE p

\* fetchViaVoyagerAPI, the API request and its answer (scraper.go:233-307)
VoyagerAPI ==
    /\ pc = "voyager_api"
    /\ \/ /\ requests' = Append(requests, Request("api", csrf, 0))
          /\ verr' = "request"
          /\ UNCHANGED vprofile
       \/ /\ \E status \in FailureStatuses :
                requests' = Append(requests, Request("api", csrf, status))
          /\ verr' = "API returned status"
          /\ UNCHANGED vprofile
       \/ /\ requests' = Append(requests, Request("api", csrf, StatusOK))
          /\ verr' \in {"read", "unmarshal"}
          /\ UNCHANGED vprofile
       \/ \E included \in SeqsUpTo(ApiEntries, MaxIncluded), element \in ApiElements :
             /\ requests' = Append(requests, Request("api", csrf, StatusOK))
             /\ vprofile' = Some(apiProfile(included, element))
             /\ verr' = ""
    /\ pc' = "voyager_done"
    /\ UNCHANGED <<cookie, username, csrf, result, err,
                   initVars, parseVars, urlVars, githubVars, commandVars, serveVars, callVars>>

\* an exchange whose outcome is returned whatever it is
returnsExchange_Always(e, p) == TRUE

\* scraper.go:141: the outcome of the exchange is returned to the caller
returnsExchange(e, p) == e = "" /\ Get(p).FirstName # << >>

\* FetchProfileWithAuth after fetchViaVoyagerAPI (scraper.go:140-144)
AfterVoyager ==
    /\ pc = "voyager_done"
    /\ IF returnsExchange(verr, vprofile)
       THEN /\ result' = vprofile
            /\ err' = << >>
            /\ pc' = "returned"
       ELSE /\ pc' = "html"
            /\ UNCHANGED <<result, err>>
    /\ UNCHANGED <<cookie, username, csrf, vprofile, verr, requests,
                   initVars, parseVars, urlVars, githubVars, commandVars, serveVars, callVars>>

\* publicError that takes every response for a success
publicError_AnyStatus(status, readable) ==
    IF status = 0 THEN <<"error fetching profile">> ELSE << >>

\* the error of the public page request (scraper.go:162-175), << >> for none
publicError(status, readable) ==
    IF status = 0 THEN <<"error fetching profile">>
    ELSE IF status # StatusOK THEN <<"LinkedIn returned status", status>>
    ELSE IF ~readable THEN <<"error reading response">>
    ELSE << >>

\* the public page request (scraper.go:147-175); 0 stands for a request that
\* got no response
HtmlFetch ==
    /\ pc = "html"
    /\ \E status \in {0, StatusOK} \cup FailureStatuses, readable \in BOOLEAN :
          /\ requests' = Append(requests, Request("public", << >>, status))
          /\ err' = publicError(status, readable)
          /\ pc' = IF publicError(status, readable) # << >> THEN "returned"
                   ELSE IF cookie # << >> THEN "p_auth" ELSE "p_ld"
    /\ result' = None
    /\ profile' = EmptyProfile /\ twin' = EmptyProfile
    /\ nblocks' = 0 /\ consumed' = [step |-> "none"]
    /\ UNCHANGED <<cookie, username, csrf, vprofile, verr,
                   initVars, urlVars, githubVars, commandVars, serveVars, callVars>>

\* parseLinkedInHTML returns, and FetchProfileWithAuth with it (scraper.go:177, 360)
ReturnParsed ==
    /\ pc = "parsed"
    /\ result' = Some(profile)
    /\ err' = << >>
    /\ pc' = "returned"
    /\ UNCHANGED <<cookie, username, csrf, vprofile, verr, requests,
                   initVars, parseVars, urlVars, githubVars, commandVars, serveVars, callVars>>



\* runInit after the fetch (part_001:110-113): the template on an error, the
\* converted profile otherwise
InitBuildCV ==
    /\ pc = "returned"
    /\ cv' = Some(IF err # << >> THEN createEmptyCV ELSE ToCV(Get(result), linkedinURL))
    /\ pc' = "github"
    /\ UNCHANGED <<force, file, linkedinURL, fetchVars, parseVars, urlVars, githubVars, commandVars, serveVars, callVars>>

GithubArgs == {<<"octo">>, <<" ", "https:", "/", "/", "github.com", "/", "octo", "/">>}
\* the listings the import is tried on, each an account and what the API answers:
\* the listing of one page answered or refused, the listing of two pages refused
\* at its second page
GithubListings ==
    ({ExampleAccount} \X {<<StatusOK, StatusOK>>, <<404, StatusOK>>, <<500, StatusOK>>})
    \cup ({LargeAccount} \X {<<StatusOK, 404>>, <<StatusOK, 500>>})
GithubCounts == {2}

\* runInit without --github (part_001:139)
InitSkipGithub ==
    /\ pc = "github"
    /\ pc' = "write"
    /\ UNCHANGED <<initVars, fetchVars, parseVars, urlVars, githubVars, commandVars, serveVars, callVars>>

\* importProjects that takes the projects over whatever the fetch returned
importProjects_Always(c, got, user) == withProjects(c, got.projects, user)

\* what runInit does with the result of the fetch (part_001:141-166): a warning
\* on an error, the projects and the GitHub link otherwise
importProjects(c, got, user) ==
    IF got.err # "" THEN c ELSE withProjects(c, got.projects, user)

\* runInit with --github (part_001:139-168)
InitGithubProjects ==
    /\ pc = "github"
    /\ \E arg \in GithubArgs, listing \in GithubListings, n \in GithubCounts :
          \E got \in FetchTopProjects(listing[1], listing[2], n) :
             /\ api' = listing[1]
             /\ apiStatus' = listing[2]
             /\ count' = n
             /\ projects' = got
             /\ cv' = Some(importProjects(Get(cv), got,
                                           githubExtractUsernameFromURL(arg)))
    /\ pc' = "write"
    /\ UNCHANGED <<force, file, linkedinURL, fetchVars, parseVars, urlVars, commandVars, serveVars, callVars>>

\* writeCV and the end of runInit (part_001:170-173, 280-315); the directory or
\* the file may refuse the write
InitWrite ==
    /\ pc = "write"
    /\ \/ /\ file' = [k |-> "cv", cv |-> Get(cv)]
          /\ pc' = "done"
       \/ /\ pc' = "fatal_write"
          /\ UNCHANGED file
    /\ UNCHANGED <<force, linkedinURL, cv, fetchVars, parseVars, urlVars, githubVars, commandVars, serveVars, callVars>>

\* the pieces of the profile page
PageIncluded ==
    {<< >>} \cup {<<e>> : e \in {x \in VoyagerEntries : voyagerCategory(x) = "skill"}}
PageBlocks ==
    {[k |-> "graph", items |-> <<r>>] : r \in {x \in GraphRecords : x.type = <<"Person">>}}
    \cup {[k |-> "invalid", items |-> << >>]}
PageTags ==
    {t \in MetaTags : t.ogDescription = None /\ t.geo = None /\ t.ogTitle # Some(<<"Solo">>)}
PageSpans == {sp \in ContentSpans : sp[1] = None}

Init ==
    /\ pc = "init"
    /\ force \in BOOLEAN
    /\ file \in {[k |-> "absent"], [k |-> "other"]}
    /\ linkedinURL = << >> /\ cv = None
    /\ cookie = << >> /\ username = << >>
    /\ IdleFetch /\ IdleParse /\ IdleURL /\ IdleGithub /\ IdleCommands /\ IdleServe /\ IdleCall

Next ==
    \/ InitRefuse
    \/ InitStart
    \/ VoyagerPage
    \/ VoyagerAPI
    \/ AfterVoyager
    \/ HtmlFetch
    \/ ParseAuthPage(PageIncluded)
    \/ ParseJSONLD(PageBlocks)
    \/ ParseMetaTags(PageTags)
    \/ ParseContent(PageSpans)
    \/ ReturnParsed
    \/ InitBuildCV
    \/ InitSkipGithub
    \/ InitGithubProjects
    \/ InitWrite

Spec == Init /\ [][Next]_vars



(***************************************************************************)
(* Properties of the init pipeline.                                        *)
(***************************************************************************)
LastRequest == requests[Len(requests)]
Sent(to) == \E i \in DOMAIN requests : requests[i].to = to

\* the exchange gave a profile and the caller has its answer
ExchangeSucceeded == pc = "returned" /\ IsSome(vprofile) /\ IsSome(result)

\* C1: once the authenticated exchange has returned a profile without error,
\* every scalar field it set and every list entry it added is in the profile
\* FetchProfileWithAuth returns, also when the exchange left the first name
\* empty and the public page was fetched.
C1_NothingDiscarded ==
    ExchangeSucceeded =>
        /\ \A f \in ScalarFields :
              Get(vprofile)[f] # << >> => Get(result)[f] = Get(vprofile)[f]
        /\ \A f \in ListFields :
              \A i \in DOMAIN Get(vprofile)[f] :
                 \E j \in DOMAIN Get(result)[f] : Get(result)[f][j] = Get(vprofile)[f][i]

\* the exchange failed and the caller has its answer
ExchangeFailed == cookie # << >> /\ verr # "" /\ pc = "returned"

PublicErrors ==
    {<<"error fetching profile">>, <<"error reading response">>}
    \cup {<<"LinkedIn returned status", st>> : st \in FailureStatuses}

\* C3: no API request is sent without a token, and after a failed exchange
\* FetchProfileWithAuth has sent the public page request and answers with what
\* that request gave: a profile and no error on a readable 200 response, one of
\* the public fetch's own errors and no profile otherwise.
C3_ExchangeFailureDefers ==
    /\ \A i \in DOMAIN requests :
          requests[i].to = "api" =>
             /\ requests[i].csrf # << >>
             /\ i > 1 /\ requests[i - 1].to = "page" /\ requests[i - 1].status = StatusOK
    /\ verr = "could not find CSRF token" => ~Sent("api")
    /\ ExchangeFailed =>
          /\ LastRequest.to = "public"
          /\ err # << >> => (err \in PublicErrors /\ result = None)
          /\ err = << >> => (LastRequest.status = StatusOK /\ IsSome(result))
          /\ LastRequest.status # StatusOK => err # << >>

\* C3 witness: no token was found, the public page was parsed and its profile
\* returned without error.
C3_Witness ==
    /\ ExchangeFailed
    /\ verr = "could not find CSRF token"
    /\ ~Sent("api")
    /\ IsSome(result) /\ err = << >>

\* the public page request got no response or a status other than 200
PublicFetchFailed ==
    /\ requests # << >>
    /\ LastRequest.to = "public"
    /\ LastRequest.status # StatusOK
    /\ pc # "html"

\* the template with what --github may add to it
FromTemplate(c) ==
    /\ [c EXCEPT !.Projects = createEmptyCV.Projects,
                 !.Personal.GitHub = createEmptyCV.Personal.GitHub] = createEmptyCV
    /\ SubSeq(c.Projects, 1, Len(createEmptyCV.Projects)) = createEmptyCV.Projects

\* C4: when the public page request gets no response or a status other than
\* 200, FetchProfileWithAuth returns no profile and an error, the error of a
\* status carrying it; init then takes the template, goes on to the write, and
\* ends with the template in the output file unless the write itself is refused.
C4_FetchFailureFallsBack ==
    PublicFetchFailed =>
        /\ result = None
        /\ err # << >>
        /\ LastRequest.status # 0 => err = <<"LinkedIn returned status", LastRequest.status>>
        /\ pc \in {"returned", "github", "write", "done", "fatal_write"}
        /\ pc = "github" => cv = Some(createEmptyCV)
        /\ pc \in {"write", "done", "fatal_write"} => FromTemplate(Get(cv))
        /\ pc = "done" => (file.k = "cv" /\ file.cv = Get(cv))
        /\ pc = "fatal_write" => file.k # "cv"

\* C4 witness: the page answered 404 and the run ended with the template written.
C4_Witness ==
    /\ PublicFetchFailed
    /\ LastRequest.status = 404
    /\ pc = "done"
    /\ file.k = "cv" /\ file.cv = createEmptyCV

\* the answer that ends the listing: the first one that is not 200 among the
\* requests FetchTopProjects makes (a second request after a full first page)
ListingAnswer ==
    IF apiStatus[1] # StatusOK THEN apiStatus[1]
    ELSE IF Len(api) >= PerPage THEN apiStatus[2]
    ELSE StatusOK

\* C12: a 404 on any page fails the fetch with the user-not-found error, another
\* status that is not 200 with the status error; no projects are returned, runInit
\* goes on to write the resume, and the resume written is the one it held before
\* the fetch, project list and GitHub link included.
C12_ListingFailure ==
    /\ [][(pc = "github" /\ apiStatus' # << >>) =>
            /\ pc' = "write"
            /\ (ListingAnswer' = 404 => projects'.err = "not found")
            /\ (ListingAnswer' \notin {StatusOK, 404, 0} => projects'.err = "status")
            /\ (ListingAnswer' # StatusOK =>
                   /\ projects'.projects = << >>
                   /\ cv' = cv
                   /\ Get(cv').Projects = Get(cv).Projects
                   /\ Get(cv').Personal.GitHub = Get(cv).Personal.GitHub)]_vars
    /\ [](pc = "done" => file = [k |-> "cv", cv |-> Get(cv)])

\* C12 witness: the second page of the listing answers 404 and the resume is
\* written without projects.
C12_Witness ==
    /\ pc = "done"
    /\ Len(api) > PerPage
    /\ apiStatus = <<StatusOK, 404>>
    /\ projects = [projects |-> << >>, err |-> "not found"]
    /\ file.k = "cv"
    /\ file.cv = Get(cv)

\* C21: runInit overwrites an existing file only with --force: when the file
\* exists and --force is not given, the command ends at its first test, with no
\* request to LinkedIn or GitHub sent and the file as it was; otherwise it goes
\* on to writeCV, and the file is changed by writeCV alone, to the CV built.
C21_NoOverwriteWithoutForce ==
    /\ []((file.k = "other" /\ ~force) =>
             /\ pc \in {"init", "fatal_exists"}
             /\ requests = << >> /\ api = << >> /\ apiStatus = << >>
             /\ cv = None)
    /\ []((file.k = "absent" \/ force) => pc # "fatal_exists")
    /\ [][file' # file =>
             /\ pc = "write" /\ pc' = "done"
             /\ force \/ file.k = "absent"
             /\ file' = [k |-> "cv", cv |-> Get(cv)]]_vars
    /\ [](pc = "done" => file = [k |-> "cv", cv |-> Get(cv)])

\* C21 witness: the file exists, --force is not given, and runInit has ended in
\* its fatal error.
C21_Witness ==
    /\ pc = "fatal_exists"
    /\ file.k = "other"
    /\ ~force



(***************************************************************************)
(* resumectl generate (part_001:390-443) and the start of resumectl serve  *)
(* (serve.go:169-189), with the generator (generator.go:32-210) and the    *)
(* theme and colour checks of the templates package (part_005:299-398).    *)
(* A colour is a sequence of characters; themes, paths and errors are      *)
(* whole strings.                                                          *)
(***************************************************************************)
NoError == [msg |-> "", wraps |-> ""]
Error(msg) == [msg |-> msg, wraps |-> ""]
\* fmt.Errorf("...: %w", err)
Wrap(msg, e) == [msg |-> msg, wraps |-> e]

\* AvailableThemes (part_005:299-320)
AvailableThemes == {"modern", "classic", "minimal", "elegant", "tech"}

\* GetThemeCSS (part_005:386-398): the error for a theme that is not in the table
GetThemeCSS(theme) ==
    IF theme \notin AvailableThemes THEN Error("theme not found") ELSE NoError

HexDigits ==
    {"0", "1", "2", "3", "4", "5", "6", "7", "8", "9",
     "a", "b", "c", "d", "e", "f", "A", "B", "C", "D", "E", "F"}

\* ValidateHexColor (part_005:323-329): ^#([0-9A-Fa-f]{6}|[0-9A-Fa-f]{3})$
ValidateHexColor(color) ==
    \/ color = << >>
    \/ /\ Len(color) \in {4, 7}
       /\ color[1] = "#"
       /\ \A i \in 2..Len(color) : color[i] \in HexDigits

\* loadCV (generator.go:60-72): os.ReadFile, then yaml.Unmarshal
loadCV(data) ==
    IF data \in {"missing", "unreadable"} THEN Error("read")
    ELSE IF data = "invalid" THEN Error("yaml")
    ELSE NoError

\* NewWithColor (generator.go:32-57): the generator, or the error
NewWithColor(data, theme, customColor) ==
    LET th == IF theme = "" THEN "modern" ELSE theme
    IN IF loadCV(data) # NoError
       THEN [gen |-> None, err |-> Wrap("error loading CV", loadCV(data).msg)]
       ELSE IF GetThemeCSS(th) # NoError
       THEN [gen |-> None, err |-> GetThemeCSS(th)]
       ELSE IF customColor # << >> /\ ~ValidateHexColor(customColor)
       THEN [gen |-> None, err |-> Error("invalid hex color")]
       ELSE [gen |-> Some([theme |-> th, customColor |-> customColor]), err |-> NoError]

\* os.MkdirAll(outputDir): nothing to do for a directory that is there; else
\* the directory is created or the call fails
MkdirAll(o, t) ==
    IF o.dir THEN {[out |-> o, touched |-> t, err |-> NoError]}
    ELSE {[out |-> [o EXCEPT !.dir = TRUE], touched |-> t \cup {"dir"}, err |-> NoError],
          [out |-> o, touched |-> t, err |-> Error("mkdir")]}

\* GenerateHTML (generator.go:75-104) on the output location: the directory of
\* the file is made, the template executed into a buffer, the buffer written;
\* os.WriteFile opens the file truncated before it writes
GenerateHTML(o, t) ==
    UNION {IF d.err # NoError
           THEN {[d EXCEPT !.err = Wrap("error creating directory", d.err.msg)]}
           ELSE {[d EXCEPT !.err = Wrap("error executing template", "exec")],
                 [d EXCEPT !.err = Wrap("error writing file", "open")],
                 [out |-> [d.out EXCEPT !.html = TRUE],
                  touched |-> d.touched \cup {"cv.html"},
                  err |-> Wrap("error writing file", "write")],
                 [out |-> [d.out EXCEPT !.html = TRUE],
                  touched |-> d.touched \cup {"cv.html"},
                  err |-> NoError]}
           : d \in MkdirAll(o, t)}

\* the methods of GeneratePDF in the order of the table (generator.go:114-121)
Methods == <<"wkhtmltopdf", "chromium", "weasyprint">>

\* chromePaths (generator.go:157-170)
MacPaths ==
    <<"/Applications/Google Chrome.app/Contents/MacOS/Google Chrome",
      "/Applications/Chromium.app/Contents/MacOS/Chromium">>
chromePaths(goos) ==
    <<"chromium", "chromium-browser", "google-chrome", "google-chrome-stable">>
    \o (IF goos = "darwin" THEN MacPaths ELSE << >>)

\* the first path exec.LookPath finds, "" for none (generator.go:172-178)
RECURSIVE chromePath(_, _)
chromePath(paths, bins) ==
    IF paths = << >> THEN ""
    ELSE IF Head(paths) \in bins THEN Head(paths)
    ELSE chromePath(Tail(paths), bins)

\* cmd.CombinedOutput() of an executable: it cannot be started, it exits with
\* an error, or it succeeds
run(name, bin, bins) ==
    IF bin \notin bins
    THEN {[name |-> name, bin |-> "", err |-> name \o ": executable file not found"]}
    ELSE {[name |-> name, bin |-> bin, err |-> name \o ": exit status 1"],
          [name |-> name, bin |-> bin, err |-> ""]}

\* what the i-th method can come to (generator.go:136-210)
methodOutcomes(i, e) ==
    IF i = 1 THEN run("wkhtmltopdf", "wkhtmltopdf", e.bins)
    ELSE IF i = 2
    THEN IF chromePath(chromePaths(e.goos), e.bins) = ""
         THEN {[name |-> "chromium", bin |-> "", err |-> "chrome/chromium not found"]}
         ELSE run("chromium", chromePath(chromePaths(e.goos), e.bins), e.bins)
    ELSE run("weasyprint", "weasyprint", e.bins)

\* a loop that never returns early
loopReturns_Never(e) == FALSE

\* the loop of GeneratePDF returns at the first method without an error
\* (generator.go:124-126)
loopReturns(e) == e = ""

\* the inputs
DataStates == {"missing", "unreadable", "invalid", "valid"}
ThemeArgs == {"", "modern", "tech", "fancy", "Modern"}
ColorArgs ==
    {<< >>, <<"#", "f", "5", "0">>, <<"#", "F", "F", "5", "7", "3", "3">>,
     <<"#", "g", "g", "g">>, <<"f", "5", "0">>, <<"#", "f", "5", "0", "0">>}
Executables ==
    {"wkhtmltopdf", "chromium", "chromium-browser", "google-chrome",
     "google-chrome-stable", "weasyprint"}
Environments ==
    {[goos |-> "linux", bins |-> b] : b \in SUBSET Executables}
    \cup {[goos |-> "darwin", bins |-> b] :
             b \in SUBSET ({"wkhtmltopdf", "weasyprint", "google-chrome"}
                           \cup {MacPaths[1], MacPaths[2]})}

InitCommands ==
    /\ pc = "c_stat"
    /\ cmd \in {"generate", "serve"}
    /\ args \in [data : DataStates, theme : ThemeArgs, color : ColorArgs,
                 htmlOnly : BOOLEAN, pdfOnly : BOOLEAN]
    /\ cmd = "serve" => ~args.htmlOnly /\ ~args.pdfOnly
    /\ out \in [dir : BOOLEAN, html : {FALSE}, pdf : {FALSE}]
    /\ gen = None /\ env = << >> /\ touched = {} /\ tried = << >>
    /\ lastErr = "" /\ gerr = NoError
    /\ cookie = << >> /\ username = << >>
    /\ IdleInit /\ IdleFetch /\ IdleParse /\ IdleURL /\ IdleGithub /\ IdleServe /\ IdleCall

otherVars == <<initVars, fetchVars, parseVars, urlVars, githubVars>>

\* log.Fatal
Fatal(e) == pc' = "c_fatal" /\ gerr' = e

\* os.Stat(dataPath) of runGenerate (part_001:391-393) and runServe
\* (serve.go:170-172)
CmdStat ==
    /\ pc = "c_stat"
    /\ IF args.data = "missing" THEN Fatal(Error("Data file does not exist"))
       ELSE /\ pc' = IF cmd = "generate" THEN "g_new" ELSE "s_mkdir"
            /\ UNCHANGED gerr
    /\ UNCHANGED <<cmd, args, out, touched, gen, env, tried, lastErr, otherVars, serveVars, callVars>>

\* runGenerate: generator.NewWithColor (part_001:395-398)
GenerateNew ==
    /\ pc = "g_new"
    /\ LET r == NewWithColor(args.data, args.theme, args.color)
       IN /\ gen' = r.gen
          /\ IF r.err # NoError THEN Fatal(r.err)
             ELSE pc' = "g_mkdir" /\ UNCHANGED gerr
    /\ UNCHANGED <<cmd, args, out, touched, env, tried, lastErr, otherVars, serveVars, callVars>>

\* os.MkdirAll(outputDir) of runGenerate (part_001:407-409) and of runServe
\* (serve.go:174-176)
CmdMkdir ==
    /\ pc \in {"g_mkdir", "s_mkdir"}
    /\ \E d \in MkdirAll(out, touched) :
          /\ out' = d.out
          /\ touched' = d.touched
          /\ IF d.err # NoError THEN Fatal(d.err)
             ELSE /\ pc' = IF pc = "s_mkdir" THEN "s_new"
                           ELSE IF args.pdfOnly /\ ~args.htmlOnly THEN "g_html2"
                           ELSE "g_html"
                  /\ UNCHANGED gerr
    /\ UNCHANGED <<cmd, args, gen, env, tried, lastErr, otherVars, serveVars, callVars>>

\* runGenerate: gen.GenerateHTML, for the HTML file (part_001:416-422) and as
\* the intermediate file of --pdf (part_001:425-429)
GenerateWriteHTML ==
    /\ pc \in {"g_html", "g_html2"}
    /\ \E d \in GenerateHTML(out, touched) :
          /\ out' = d.out
          /\ touched' = d.touched
          /\ IF d.err # NoError THEN Fatal(d.err)
             ELSE /\ pc' = IF pc = "g_html2" THEN "g_pdf"
                           ELSE IF args.pdfOnly THEN "g_html2"
                           ELSE IF ~args.htmlOnly THEN "g_pdf"
                           ELSE "c_done"
                  /\ UNCHANGED gerr
    /\ UNCHANGED <<cmd, args, gen, env, tried, lastErr, otherVars, serveVars, callVars>>

\* GeneratePDF up to its loop (generator.go:107-122), on a machine with any of
\* the converters installed
GeneratePDFStart ==
    /\ pc = "g_pdf"
    /\ env' \in Environments
    /\ \/ /\ pc' = "g_method"
          /\ UNCHANGED gerr
       \/ /\ pc' = "c_exit1"
          /\ gerr' = Wrap("error creating directory", "mkdir")
    /\ UNCHANGED <<cmd, args, out, touched, gen, tried, lastErr, otherVars, serveVars, callVars>>

\* one turn of the loop of GeneratePDF (generator.go:123-130), with the return
\* after the last one (generator.go:132) and the end of runGenerate
\* (part_001:432-442)
GeneratePDFMethod ==
    /\ pc = "g_method"
    /\ Len(tried) < Len(Methods)
    /\ \E o \in methodOutcomes(Len(tried) + 1, env) :
          /\ tried' = Append(tried, o)
          /\ IF loopReturns(o.err)
             THEN /\ pc' = "c_done"
                  /\ out' = [out EXCEPT !.pdf = TRUE]
                  /\ touched' = touched \cup {"cv.pdf"}
                  /\ UNCHANGED <<lastErr, gerr>>
             ELSE /\ lastErr' = o.err
                  /\ UNCHANGED <<out, touched>>
                  /\ IF Len(tried') = Len(Methods)
                     THEN /\ pc' = "c_exit1"
                          /\ gerr' = Wrap("no PDF generator available", lastErr')
                     ELSE pc' = "g_method" /\ UNCHANGED gerr
    /\ UNCHANGED <<cmd, args, gen, env, otherVars, serveVars, callVars>>

\* runServe: the first part of server.regenerate() (serve.go:187-189, 89-92)
ServeNew ==
    /\ pc = "s_new"
    /\ LET r == NewWithColor(args.data, args.theme, args.color)
       IN /\ gen' = r.gen
          /\ IF r.err # NoError THEN Fatal(r.err)
             ELSE pc' = "s_html" /\ UNCHANGED gerr
    /\ UNCHANGED <<cmd, args, out, touched, env, tried, lastErr, otherVars, serveVars, callVars>>

\* runServe: the rest of server.regenerate() (serve.go:94-103)
ServeRegenerate ==
    /\ pc = "s_html"
    /\ \E d \in GenerateHTML(out, touched) :
          /\ out' = d.out
          /\ touched' = d.touched
          /\ IF d.err # NoError
             THEN Fatal(d.err) /\ UNCHANGED <<lastModTime, clock>>
             ELSE /\ pc' = "s_serving"
                  /\ clock' = clock + 1
                  /\ lastModTime' = clock'
                  /\ UNCHANGED gerr
    /\ UNCHANGED <<cmd, args, gen, env, tried, lastErr, otherVars>>
    /\ UNCHANGED <<src, doc, watchVars, mu, hpc, stopVars, histVars, callVars>>

NextCommands ==
    \/ CmdStat
    \/ GenerateNew
    \/ CmdMkdir
    \/ GenerateWriteHTML
    \/ GeneratePDFStart
    \/ GeneratePDFMethod
    \/ ServeNew
    \/ ServeRegenerate

SpecCommands == InitCommands /\ [][NextCommands]_vars

(***************************************************************************)
(* Properties of generate and of the start of serve.                       *)
(***************************************************************************)
\* C13: GeneratePDF calls the converters one after another in the order
\* wkhtmltopdf, Chrome/Chromium, WeasyPrint: one is called only after every
\* earlier one failed, none after one that succeeded, the operation succeeds
\* with the first that does, and when all three failed the error returned wraps
\* the error of the last.
C13_ConvertersInOrder ==
    /\ Len(tried) <= 3
    /\ \A i \in DOMAIN tried :
          /\ tried[i].name = <<"wkhtmltopdf", "chromium", "weasyprint">>[i]
          /\ i < Len(tried) => tried[i].err # ""
    /\ (tried # << >> /\ tried[Len(tried)].err = "") =>
          pc = "c_done" /\ out.pdf /\ gerr = NoError
    /\ (pc = "c_done" /\ tried # << >>) => tried[Len(tried)].err = ""
    /\ (pc = "c_exit1" /\ tried # << >>) =>
          /\ Len(tried) = 3
          /\ tried[3].err # ""
          /\ gerr.wraps = tried[3].err
          /\ gerr.msg = "no PDF generator available"

\* C13 witness: wkhtmltopdf is missing, google-chrome and weasyprint exit with an
\* error; the error returned wraps that of weasyprint.
C13_Witness ==
    /\ pc = "c_exit1"
    /\ Len(tried) = 3
    /\ tried[1].bin = ""
    /\ tried[2].bin = "google-chrome"
    /\ tried[3].bin = "weasyprint"
    /\ gerr = [msg |-> "no PDF generator available", wraps |-> "weasyprint: exit status 1"]

\* the input the commands have to refuse
InvalidInput ==
    \/ args.data = "missing"
    \/ args.theme \notin {"", "modern", "classic", "minimal", "elegant", "tech"}
    \/ args.color # << >> /\ ~ValidateHexColor(args.color)

\* C14: with a missing data file, a theme that is none of the five or a colour
\* that fails the hex validation, generate and serve fail, and nothing has been
\* created or written in the output location.
C14_ValidatedFirst ==
    (cmd # "" /\ InvalidInput) =>
        /\ touched = {}
        /\ pc \notin {"c_done", "c_exit1", "s_serving"}



(***************************************************************************)
(* The preview server (serve.go:79-156, 191-249) once runServe has started *)
(* it: the polling task watchFile with regenerate, the handlers of /_reload *)
(* and of the document, the signal goroutine and the end of runServe, and, *)
(* from outside, the data file being saved or removed and an interrupt.    *)
(* Modification times are numbers from 1 on, 0 the zero time.Time; a       *)
(* document is known by the version of the data it was rendered from, a    *)
(* document cut short by a failed write is Partial.                        *)
(***************************************************************************)
MaxHandlers == 2    \* requests to /_reload in flight at once
MaxEdits == 2       \* times the data file is saved
MaxMtime == 3       \* the latest modification time

Partial == 0 - 1

Handlers == 1..MaxHandlers

\* info.ModTime().After(lastModTime) that holds at every tick
advanced_Always(m, last) == TRUE

\* info.ModTime().After(lastModTime) (serve.go:122)
advanced(m, last) == m > last

\* RLock that does not wait for the writer
mayRLock_Always(m) == TRUE

\* sync.RWMutex: RLock goes through unless a writer holds the lock or waits for it
mayRLock(m) == ~m.writer /\ ~m.pending

\* sync.RWMutex: Lock goes through once the readers have left
mayLock(m) == m.readers = 0 /\ ~m.writer

\* the process lives until runServe returns
Running == mainpc = "listen"

InitServe ==
    /\ pc = "serving"
    /\ src = [mtime |-> MaxMtime - 1, version |-> 0, present |-> TRUE]
    /\ doc = 0
    /\ clock = 1 /\ lastModTime = 1
    /\ wpc = "select" /\ wlast = 0 /\ wgen = 0
    /\ mu = [readers |-> 0, writer |-> FALSE, pending |-> FALSE]
    /\ hpc = [h \in Handlers |-> "idle"]
    /\ sig = FALSE /\ ctx = FALSE /\ spc = "wait" /\ http = "open" /\ mainpc = "listen"
    /\ detected = 0 /\ pending = FALSE /\ edits = << >> /\ lastCV = None
    /\ regens = [started |-> 0, failed |-> 0, stored |-> 0, changes |-> 0, own |-> FALSE,
                 last |-> "ok", tokenDoc |-> 0]
    /\ cookie = << >> /\ username = << >>
    /\ IdleInit /\ IdleFetch /\ IdleParse /\ IdleURL /\ IdleGithub /\ IdleCommands /\ IdleCall

restVars == <<pc, otherVars, commandVars, callVars>>

\* regenerations are counted from the first change of the modification time on;
\* how the last one ended, and the document the token was set for, are kept
\* throughout
Since(r) ==
    IF edits = << >> THEN [regens EXCEPT !.last = r.last, !.tokenDoc = r.tokenDoc] ELSE r

\* another process saves the data file: new content, and a modification time
\* that is later or (a file moved or copied into place with its own time) earlier
Edit ==
    /\ Running
    /\ Len(edits) < MaxEdits
    /\ \E m \in (1..MaxMtime) \ {src.mtime} :
          /\ src' = [mtime |-> m, version |-> src.version + 1, present |-> TRUE]
          /\ edits' = Append(edits, IF m > src.mtime THEN "advance" ELSE "regress")
          /\ pending' = (m > src.mtime)
    /\ UNCHANGED <<doc, lastModTime, clock, watchVars, mu, hpc, stopVars,
                   detected, regens, lastCV, restVars>>

\* another process removes the data file
Unlink ==
    /\ Running
    /\ src.present
    /\ src' = [src EXCEPT !.present = FALSE]
    /\ UNCHANGED <<doc, lastModTime, clock, watchVars, mu, hpc, stopVars, histVars, restVars>>

\* watchFile: a tick of the ticker (serve.go:117-123) up to the call of
\* regenerate
WatchTick ==
    /\ Running
    /\ wpc = "select"
    /\ IF src.present /\ advanced(src.mtime, wlast)
       THEN /\ wlast' = src.mtime
            /\ wpc' = "regen"
            /\ detected' = src.version
            /\ pending' = FALSE
            /\ regens' = Since([regens EXCEPT !.started = @ + 1, !.own = TRUE,
                                               !.last = "running"])
       ELSE UNCHANGED <<wlast, wpc, detected, pending, regens>>
    /\ UNCHANGED <<src, doc, lastModTime, clock, wgen, mu, hpc, stopVars, edits, lastCV,
                   restVars>>

\* watchFile: the select takes ctx.Done() (serve.go:114-115)
WatchCancel ==
    /\ Running
    /\ wpc = "select"
    /\ ctx
    /\ wpc' = "stopped"
    /\ UNCHANGED <<src, doc, lastModTime, clock, wlast, wgen, mu, hpc, stopVars, histVars,
                   restVars>>

\* a regeneration that failed: regenerate returns the error, watchFile logs it
\* and goes back to its select (serve.go:124-125)
RegenFailed ==
    /\ wpc' = "select"
    /\ regens' = Since([regens EXCEPT !.failed = IF regens.own THEN @ + 1 ELSE @,
                                       !.own = FALSE, !.last = "failed"])

\* regenerate: generator.NewWithColor (serve.go:89-92); the data file may be
\* gone, unreadable or not valid YAML at that moment
RegenNew ==
    /\ Running
    /\ wpc = "regen"
    /\ \/ /\ src.present
          /\ wgen' = src.version
          /\ wpc' = "html"
          /\ UNCHANGED regens
       \/ /\ RegenFailed
          /\ UNCHANGED wgen
    /\ UNCHANGED <<src, doc, lastModTime, clock, wlast, mu, hpc, stopVars,
                   detected, pending, edits, lastCV, restVars>>

\* an os.WriteFile that reports success and leaves the file cut short
WriteFile_Short(data) == Partial

\* os.WriteFile(outputPath, buf.Bytes(), 0644) (generator.go:99) that succeeds
WriteFile(data) == data

\* regenerate: gen.GenerateHTML (serve.go:94-97, generator.go:75-104): an error
\* before the write, an error of os.WriteFile before or after the file was
\* truncated, or the document written
RegenHTML ==
    /\ Running
    /\ wpc = "html"
    /\ \/ /\ RegenFailed
          /\ doc' \in {doc, Partial}
       \/ /\ doc' = WriteFile(wgen)
          /\ wpc' = "lock"
          /\ regens' = [regens EXCEPT !.last = "ok"]
    /\ UNCHANGED <<src, lastModTime, clock, wlast, wgen, mu, hpc, stopVars,
                   detected, pending, edits, lastCV, restVars>>

\* regenerate: s.mu.Lock() is called (serve.go:99); readers that come later wait
RegenLock ==
    /\ Running
    /\ wpc = "lock"
    /\ mu' = [mu EXCEPT !.pending = TRUE]
    /\ wpc' = "wait"
    /\ UNCHANGED <<src, doc, lastModTime, clock, wlast, wgen, hpc, stopVars, histVars,
                   restVars>>

\* regenerate: s.mu.Lock() returns
RegenLocked ==
    /\ Running
    /\ wpc = "wait"
    /\ mayLock(mu)
    /\ mu' = [mu EXCEPT !.writer = TRUE, !.pending = FALSE]
    /\ wpc' = "locked"
    /\ UNCHANGED <<src, doc, lastModTime, clock, wlast, wgen, hpc, stopVars, histVars,
                   restVars>>

\* regenerate: the token is set and the lock released (serve.go:100-103);
\* watchFile goes back to its select
RegenStore ==
    /\ Running
    /\ wpc = "locked"
    /\ clock' = clock + 1
    /\ lastModTime' = clock'
    /\ mu' = [mu EXCEPT !.writer = FALSE]
    /\ wpc' = "select"
    /\ regens' = Since([regens EXCEPT
                            !.stored = IF regens.own THEN @ + 1 ELSE @,
                            !.changes = IF lastModTime' # lastModTime THEN @ + 1 ELSE @,
                            !.own = FALSE, !.tokenDoc = doc])
    /\ UNCHANGED <<src, doc, wlast, wgen, hpc, stopVars, detected, pending, edits, lastCV,
                   restVars>>

\* a request for /_reload arrives: handleReload calls s.mu.RLock() (serve.go:136)
ReloadArrive(h) ==
    /\ Running
    /\ http = "open"
    /\ hpc[h] = "idle"
    /\ hpc' = [hpc EXCEPT ![h] = "rlock"]
    /\ UNCHANGED <<src, doc, lastModTime, clock, watchVars, mu, stopVars, histVars, restVars>>

\* handleReload: s.mu.RLock() returns
ReloadRLock(h) ==
    /\ Running
    /\ hpc[h] = "rlock"
    /\ mayRLock(mu)
    /\ mu' = [mu EXCEPT !.readers = @ + 1]
    /\ hpc' = [hpc EXCEPT ![h] = "read"]
    /\ UNCHANGED <<src, doc, lastModTime, clock, watchVars, stopVars, histVars, restVars>>

\* handleReload: the token is written to the response and the deferred
\* s.mu.RUnlock() runs (serve.go:137-139)
ReloadRespond(h) ==
    /\ Running
    /\ hpc[h] = "read"
    /\ mu' = [mu EXCEPT !.readers = @ - 1]
    /\ hpc' = [hpc EXCEPT ![h] = "idle"]
    /\ UNCHANGED <<src, doc, lastModTime, clock, watchVars, stopVars, histVars, restVars>>

\* a handler that keeps answering with the document of the start
ReadFile_Cached(d) == 0

\* os.ReadFile(htmlPath) (serve.go:144): what is on disk now
ReadFile(d) == d

\* handleCV (serve.go:142-156): the document is read from disk and sent
HandleCV ==
    /\ Running
    /\ http = "open"
    /\ lastCV' = Some([doc |-> ReadFile(doc), detected |-> detected, regen |-> regens.last,
                        tokenDoc |-> regens.tokenDoc])
    /\ UNCHANGED <<src, doc, lastModTime, clock, watchVars, mu, hpc, stopVars,
                   detected, pending, edits, regens, restVars>>

\* SIGINT or SIGTERM is delivered to sigChan
Interrupt ==
    /\ Running
    /\ ~sig
    /\ sig' = TRUE
    /\ UNCHANGED <<src, doc, lastModTime, clock, watchVars, mu, hpc, ctx, spc, http, mainpc,
                   histVars, restVars>>

\* the signal goroutine: <-sigChan and cancel() (serve.go:233-235)
SigCancel ==
    /\ Running
    /\ spc = "wait"
    /\ sig
    /\ ctx' = TRUE
    /\ spc' = "shutdown"
    /\ UNCHANGED <<src, doc, lastModTime, clock, watchVars, mu, hpc, sig, http, mainpc,
                   histVars, restVars>>

\* httpServer.Shutdown closes the listener (serve.go:236); ListenAndServe
\* returns ErrServerClosed from then on
ShutdownBegin ==
    /\ Running
    /\ spc = "shutdown"
    /\ http' = "draining"
    /\ spc' = "draining"
    /\ UNCHANGED <<src, doc, lastModTime, clock, watchVars, mu, hpc, sig, ctx, mainpc,
                   histVars, restVars>>

\* httpServer.Shutdown returns: no request is in flight any more
ShutdownEnd ==
    /\ Running
    /\ spc = "draining"
    /\ \A h \in Handlers : hpc[h] = "idle"
    /\ http' = "closed"
    /\ spc' = "done"
    /\ UNCHANGED <<src, doc, lastModTime, clock, watchVars, mu, hpc, sig, ctx, mainpc,
                   histVars, restVars>>

\* ListenAndServe returns ErrServerClosed and runServe returns (serve.go:246-249):
\* the process exits
MainReturn ==
    /\ Running
    /\ http # "open"
    /\ mainpc' = "returned"
    /\ UNCHANGED <<src, doc, lastModTime, clock, watchVars, mu, hpc, sig, ctx, spc, http,
                   histVars, restVars>>

Watcher ==
    \/ WatchTick
    \/ WatchCancel
    \/ RegenNew
    \/ RegenHTML
    \/ RegenLock
    \/ RegenLocked
    \/ RegenStore

SignalTask ==
    \/ SigCancel
    \/ ShutdownBegin
    \/ ShutdownEnd

NextServe ==
    \/ Edit
    \/ Unlink
    \/ Watcher
    \/ \E h \in Handlers : ReloadArrive(h) \/ ReloadRLock(h) \/ ReloadRespond(h)
    \/ HandleCV
    \/ Interrupt
    \/ SignalTask
    \/ MainReturn

SpecServe == InitServe /\ [][NextServe]_vars

\* the polling task and the document: the data file changes, the watcher
\* regenerates, the document is requested
NextWatch ==
    \/ Edit
    \/ Unlink
    \/ WatchTick
    \/ RegenNew
    \/ RegenHTML
    \/ RegenLock
    \/ RegenLocked
    \/ RegenStore
    \/ HandleCV

SpecWatch == InitServe /\ [][NextWatch]_vars

\* the polling task is scheduled fairly and its ticker keeps firing
SpecWatchFair ==
    /\ SpecWatch
    /\ WF_vars(WatchTick \/ RegenNew \/ RegenHTML \/ RegenLock \/ RegenLocked \/ RegenStore)

\* the polling task and the handlers of /_reload
NextReload ==
    \/ Edit
    \/ WatchTick
    \/ RegenNew
    \/ RegenHTML
    \/ RegenLock
    \/ RegenLocked
    \/ RegenStore
    \/ \E h \in Handlers : ReloadArrive(h) \/ ReloadRLock(h) \/ ReloadRespond(h)

SpecReload == InitServe /\ [][NextReload]_vars

\* the goroutines are scheduled fairly: the polling task, whose ticker keeps
\* firing, and every handler that has a request
SpecReloadFair ==
    /\ SpecReload
    /\ WF_vars(WatchTick \/ RegenNew \/ RegenHTML \/ RegenLock \/ RegenLocked \/ RegenStore)
    /\ \A h \in Handlers : WF_vars(ReloadRLock(h) \/ ReloadRespond(h))

(***************************************************************************)
(* Properties of the preview server.                                       *)
(***************************************************************************)
\* C15: a regeneration of the watcher that fails leaves the server running and
\* polling, and the reload token and the document on disk as they were.
C15_FailureLeavesOutput ==
    [][(wpc \in {"regen", "html"} /\ wpc' = "select") =>
          /\ lastModTime' = lastModTime
          /\ doc' = doc
          /\ Running']_vars

\* the watcher waits for a tick and has seen the modification time of the file
InStep == wpc = "select" /\ wlast = src.mtime

C17_FreshAfterDetection ==
    lastCV # None => Get(lastCV).doc >= Get(lastCV).detected

\* C17 amended: a request for the document is answered with the document
\* rendered from the changed data once the regeneration that followed the
\* detection has written it; it is answered with what is on disk, the previous
\* document or a partly written one, while that regeneration is under way or
\* after it failed.
C17_FreshOnceWritten ==
    lastCV # None =>
        /\ Get(lastCV).regen = "ok" =>
               /\ Get(lastCV).doc >= Get(lastCV).detected
               /\ Get(lastCV).doc # Partial
        /\ Get(lastCV).regen # "ok" => Get(lastCV).doc <= Get(lastCV).detected

\* C17 witness: the file was saved, the watcher regenerated, and a request is
\* answered with the document rendered from the saved data.
C17_Witness ==
    /\ lastCV # None
    /\ edits # << >>
    /\ Get(lastCV).regen = "ok"
    /\ Get(lastCV).detected = src.version
    /\ Get(lastCV).doc = src.version

\* C18: as long as the data file can be stat'ed and no shutdown was requested,
\* an advance of its modification time is followed by a regeneration attempt
\* (unless the file is saved once more with an earlier time before the tick).
C18_EveryAdvanceRegenerates ==
    (pending /\ src.present /\ ~sig) ~> (~pending \/ ~src.present \/ sig)

\* C19: runServe does not return before httpServer.Shutdown has returned, that
\* is before the requests in flight are answered; the polling loop was cancelled
\* by then.
C19_ShutdownDrains ==
    mainpc = "returned" =>
        /\ spc = "done"
        /\ ctx
        /\ \A h \in Handlers : hpc[h] = "idle"

\* C20: the token is written only by regenerate holding the write lock and read
\* only by handleReload holding the read lock, never both at once, and neither
\* waits for the lock forever: regenerate does not stay in Lock, nor a handler
\* in RLock.
C20_TokenUnderLock ==
    /\ [](/\ mu.writer <=> wpc = "locked"
          /\ mu.readers = Cardinality({h \in Handlers : hpc[h] = "read"})
          /\ mu.writer => mu.readers = 0)
    /\ [][lastModTime' # lastModTime =>
             /\ wpc = "locked" /\ mu.writer
             /\ \A h \in Handlers : hpc[h] # "read"]_vars
    /\ []<>(wpc # "wait")
    /\ \A h \in Handlers : []<>(hpc[h] # "rlock")

\* C20 witness: regenerate waits for the write lock while one handler reads the
\* token and another waits behind the writer.
C20_Witness ==
    /\ wpc = "wait"
    /\ mu.pending
    /\ \E h \in Handlers : hpc[h] = "read"
    /\ \E h \in Handlers : hpc[h] = "rlock"

\* C28: as long as the data file has not been saved since the server started,
\* the watcher starts no regeneration and the token is the one of the first
\* generation; the token changes only after an advance of the modification time.
C28_QuietUntilChange ==
    /\ []((edits = << >>) => (wpc = "select" /\ lastModTime = 1))
    /\ [][lastModTime' # lastModTime => \E i \in DOMAIN edits : edits[i] = "advance"]_vars

\* C29: after a regeneration that failed the watcher starts another one only
\* when the modification time is later than the one it recorded, and until then
\* the document on disk is a whole one, left by a regeneration that succeeded.
C29_NoRetryAfterFailure ==
    /\ [][(regens.last = "failed" /\ wpc = "select" /\ wpc' # "select") =>
             /\ src.present
             /\ src.mtime > wlast
             /\ wlast' = src.mtime]_vars
    /\ []((regens.last = "failed") => doc # Partial)

\* C30: the token is set only once the new document is on disk whole, by one
\* regeneration at a time, so that the document on disk, and every answer to a
\* request for it, is the one written by the regeneration that set the token or
\* by a later one (a later one that failed leaves it cut short; no earlier one
\* can, since the file is written only after the token's document was), never
\* an older one.
C30_DocumentNotOlderThanToken ==
    /\ [][lastModTime' # lastModTime =>
             /\ wpc = "locked"
             /\ doc = wgen /\ doc' = doc
             /\ regens'.tokenDoc = doc]_vars
    /\ [][doc' # doc =>
             /\ wpc = "html"
             /\ doc' = wgen \/ (doc' = Partial /\ regens'.last = "failed")
             /\ wgen >= regens.tokenDoc]_vars
    /\ [](doc >= regens.tokenDoc \/ doc = Partial)
    /\ [](lastCV # None =>
             \/ Get(lastCV).doc >= Get(lastCV).tokenDoc
             \/ Get(lastCV).doc = Partial)

\* C30 witness: the file was saved, the watcher wrote the new document and set
\* the token, and a request is answered with that document.
C30_Witness ==
    /\ edits # << >>
    /\ regens.tokenDoc = src.version
    /\ wpc = "select"
    /\ lastCV # None
    /\ Get(lastCV).tokenDoc = src.version
    /\ Get(lastCV).doc = src.version

(***************************************************************************)
(* The dates of an experience or education entry as the template shows     *)
(* them: formatDate of the template is models.FormatDate (generator.go:78, *)
(* cv.go:84-90).  A date is text of one atom or more.                      *)
(***************************************************************************)
\* the token shown for an entry that goes on
Ongoing == <<"Présent">>

\* models.FormatDate (cv.go:85-90)
FormatDate(date) ==
    IF date = <<"present">> \/ date = <<"présent">> THEN Ongoing ELSE date

\* the spellings of the sentinel, in English and French, in three letter cases
PresentSpellings ==
    {<<"present">>, <<"Present">>, <<"PRESENT">>,
     <<"présent">>, <<"Présent">>, <<"PRÉSENT">>}

\* the dates of the data file: the sentinel, months, years, text around the
\* sentinel, nothing
Dates ==
    PresentSpellings
    \cup {<<"2020-01">>, <<"01/2020">>, <<"2024">>, <<"present", "ly">>, << >>}

\* an entry of the data file with its two dates
InitDates ==
    /\ pc = "dates"
    /\ callIn \in [StartDate : Dates, EndDate : Dates]
    /\ callOut = None
    /\ cookie = << >> /\ username = << >>
    /\ IdleInit /\ IdleFetch /\ IdleParse /\ IdleURL /\ IdleGithub /\ IdleCommands
    /\ IdleServe /\ IdleRepos

\* the template shows the entry: {{formatDate .StartDate}} - {{formatDate .EndDate}}
ShowDates ==
    /\ pc = "dates"
    /\ callOut' = Some([StartDate |-> FormatDate(callIn.StartDate),
                       EndDate |-> FormatDate(callIn.EndDate)])
    /\ pc' = "shown"
    /\ UNCHANGED <<callIn, repoVars, initVars, fetchVars, parseVars, urlVars, githubVars,
                   commandVars, serveVars>>

NextDates == ShowDates

SpecDates == InitDates /\ [][NextDates]_vars

\* C22: an end date that spells the sentinel, in English or French and in any
\* letter case, is shown as the token and not as it was written; every other
\* date is shown unchanged.
C22_PresentInAnyCase ==
    (pc = "shown") =>
        /\ callIn.EndDate \in PresentSpellings =>
               /\ Get(callOut).EndDate = Ongoing
               /\ callIn.EndDate # Ongoing => Get(callOut).EndDate # callIn.EndDate
        /\ callIn.EndDate \notin PresentSpellings => Get(callOut).EndDate = callIn.EndDate

(***************************************************************************)
(* The colour scheme derived from --color (part_005:331-384).  A colour is *)
(* text of single characters, "#" first; the factors 0.2 and 0.15 of the   *)
(* code are taken in hundredths, the conversion of the float64 product to  *)
(* int being the integer quotient for every channel value.                 *)
(***************************************************************************)
LowerHex == <<"0", "1", "2", "3", "4", "5", "6", "7", "8", "9", "a", "b", "c", "d", "e", "f">>
UpperHex == <<"0", "1", "2", "3", "4", "5", "6", "7", "8", "9", "A", "B", "C", "D", "E", "F">>

\* the value of a hexadecimal digit as Sscanf's %x reads it
HexValue(c) ==
    CHOOSE v \in 0..15 : LowerHex[v + 1] = c \/ UpperHex[v + 1] = c

\* hexToRGB (part_005:358-367): the three channels of #RGB or #RRGGBB
hexToRGB(hex) ==
    LET h == TrimPrefix(hex, <<"#">>)
        long == IF Len(h) = 3 THEN <<h[1], h[1], h[2], h[2], h[3], h[3]>> ELSE h
    IN [i \in 1..3 |-> 16 * HexValue(long[2 * i - 1]) + HexValue(long[2 * i])]

\* clamp (part_005:374-382)
clamp(v) == IF v < 0 THEN 0 ELSE IF v > 255 THEN 255 ELSE v

\* rgbToHex (part_005:370-372): "#%02x%02x%02x" of the clamped channels
rgbToHex(rgb) ==
    LET two(v) == <<LowerHex[(clamp(v) \div 16) + 1], LowerHex[(clamp(v) % 16) + 1]>>
    IN <<"#">> \o two(rgb[1]) \o two(rgb[2]) \o two(rgb[3])

\* lightenColor (part_005:349-355)
lightenColor(hex, factor) ==
    LET rgb == hexToRGB(hex)
    IN rgbToHex([i \in 1..3 |-> rgb[i] + ((255 - rgb[i]) * factor) \div 100])

\* a darkenColor that lightens
darkenColor_Lighten(hex, factor) == lightenColor(hex, factor)

\* darkenColor (part_005:340-346)
darkenColor(hex, factor) ==
    LET rgb == hexToRGB(hex)
    IN rgbToHex([i \in 1..3 |-> (rgb[i] * (100 - factor)) \div 100])

\* DeriveColorScheme (part_005:332-338)
DeriveColorScheme(primary) ==
    [Primary |-> primary,
     Secondary |-> darkenColor(primary, 20),
     Accent |-> lightenColor(primary, 15)]

\* the valid colours: every #RGB, and the #RRGGBB in which one channel takes
\* every value, in lower or upper case, and the others a few
Range(f) == {f[i] : i \in DOMAIN f}
AllPairs ==
    {<<a, b>> : a \in Range(LowerHex), b \in Range(LowerHex)}
    \cup {<<a, b>> : a \in Range(UpperHex), b \in Range(UpperHex)}
FewPairs == {<<"0", "0">>, <<"8", "0">>, <<"f", "F">>}
ShortColors == {<<"#", a, b, c>> : a \in HexDigits, b \in HexDigits, c \in HexDigits}
LongColors ==
    {<<"#">> \o t[1] \o t[2] \o t[3] :
        t \in (AllPairs \X FewPairs \X FewPairs)
              \cup (FewPairs \X AllPairs \X FewPairs)
              \cup (FewPairs \X FewPairs \X AllPairs)}
ValidColors == ShortColors \cup LongColors

InitColors ==
    /\ pc = "color"
    /\ callIn \in ValidColors
    /\ callOut = None
    /\ cookie = << >> /\ username = << >>
    /\ IdleInit /\ IdleFetch /\ IdleParse /\ IdleURL /\ IdleGithub /\ IdleCommands
    /\ IdleServe /\ IdleRepos

\* GetThemeCSSWithColor derives the scheme of a colour it has validated
\* (part_005:409-412)
DeriveScheme ==
    /\ pc = "color"
    /\ ValidateHexColor(callIn)
    /\ callOut' = Some(DeriveColorScheme(callIn))
    /\ pc' = "derived"
    /\ UNCHANGED <<callIn, repoVars, initVars, fetchVars, parseVars, urlVars, githubVars,
                   commandVars, serveVars>>

NextColors == DeriveScheme

SpecColors == InitColors /\ [][NextColors]_vars

\* C23: the scheme derived from a valid colour has the primary as given, a
\* secondary of which every channel is at most the primary's, an accent of
\* which every channel is at least the primary's, and every channel of every
\* derived colour between 0 and 255.
C23_DarkerAndLighter ==
    (pc = "derived") =>
        LET scheme == Get(callOut)
            p == hexToRGB(callIn)
            d == hexToRGB(scheme.Secondary)
            a == hexToRGB(scheme.Accent)
        IN /\ scheme.Primary = callIn
           /\ ValidateHexColor(scheme.Secondary) /\ Len(scheme.Secondary) = 7
           /\ ValidateHexColor(scheme.Accent) /\ Len(scheme.Accent) = 7
           /\ \A i \in 1..3 :
                 /\ d[i] \in 0..255 /\ a[i] \in 0..255
                 /\ d[i] <= p[i]
                 /\ a[i] >= p[i]

\* C23 witness: the scheme of the spec's example: #800000 gives the secondary
\* #660000 and the accent #932626.
C23_Witness ==
    /\ pc = "derived"
    /\ callIn = <<"#", "8", "0", "0", "0", "0", "0">>
    /\ Get(callOut).Secondary = <<"#", "6", "6", "0", "0", "0", "0">>
    /\ Get(callOut).Accent = <<"#", "9", "3", "2", "6", "2", "6">>

(***************************************************************************)
(* extractFromVoyagerData (scraper.go:938-1130) called on one entry of an  *)
(* "included" list, with an empty profile.  The discriminator $type is a   *)
(* namespace followed by words, the identifier entityUrn names a kind.     *)
(***************************************************************************)
MaxTypeWords == 2   \* words of a discriminator after its namespace

TypeWords ==
    {"Profile", "profile", "PROFILE", "Position", "position", "Education", "education",
     "Skill", "skill", "Language", "language", "LANGUAGE", "Certification",
     "certification", "Badge"}

TypeFields ==
    {<< >>} \cup {<<"com.linkedin.voyager.">> \o w :
                    w \in SeqsUpTo(TypeWords, MaxTypeWords) \ {<< >>}}

EntityUrns ==
    {<< >>,
     <<"urn:li:", "fs_", "position", ":1">>, <<"urn:li:", "fs_", "skill", ":1">>,
     <<"urn:li:", "fs_", "language", ":1">>, <<"urn:li:", "FS_", "Language", ":1">>,
     <<"urn:li:", "fs_", "certification", ":1">>}

\* an entry that carries the fields every extractor reads
FullEntry(typeField, entityUrn) ==
    [NoEntry EXCEPT !.type = typeField, !.urn = entityUrn,
                    !.firstName = Some(<<"Grace">>), !.title = Some(<<"Dev">>),
                    !.companyName = NameStr(<<"Acme">>),
                    !.schoolName = NameStr(<<"MIT">>), !.name = Some(<<"Go">>),
                    !.proficiency = Some(<<"Native">>), !.authority = Some(<<"CNCF">>)]

InitVoyager ==
    /\ pc = "entry"
    /\ callIn \in {FullEntry(t, u) : t \in TypeFields, u \in EntityUrns}
    /\ callOut = None
    /\ cookie = << >> /\ username = << >>
    /\ IdleInit /\ IdleFetch /\ IdleParse /\ IdleURL /\ IdleGithub /\ IdleCommands
    /\ IdleServe /\ IdleRepos

\* the loop over "included" hands the entry to extractFromVoyagerData
\* (scraper.go:930-932)
ExtractEntry ==
    /\ pc = "entry"
    /\ profile' = extractFromVoyagerData(callIn, profile)
    /\ pc' = "extracted"
    /\ UNCHANGED <<twin, consumed, nblocks, callVars, initVars, fetchVars, urlVars,
                   githubVars, commandVars, serveVars>>

NextVoyager == ExtractEntry

SpecVoyager == InitVoyager /\ [][NextVoyager]_vars

\* the categories an extraction wrote to
Handled(p) ==
    {c \in {"profile", "position", "education", "skill", "language", "certification"} :
        \/ c = "profile" /\ p.FirstName # << >>
        \/ c = "position" /\ p.Experience # << >>
        \/ c = "education" /\ p.Education # << >>
        \/ c = "skill" /\ p.Skills # << >>
        \/ c = "language" /\ p.Languages # << >>
        \/ c = "certification" /\ p.Certifications # << >>}

\* the entry with its discriminator and identifier in lower case
Folded(data) == [data EXCEPT !.type = ToLower(@), !.urn = ToLower(@)]

\* the discriminator or the identifier names the word, whatever the letter case
Names(data, word) ==
    Contains(ToLower(data.type), <<word>>) \/ Contains(ToLower(data.urn), <<word>>)

\* C24: the category of an entry does not depend on the letter case of its
\* discriminator and identifier: the entry is handled as the same entry in
\* lower case is; an entry that names a language, or a certification, and none
\* of the categories before it is handled as a language, or a certification.
C24_CaseInsensitive ==
    (pc = "extracted") =>
        /\ Handled(profile) = Handled(extractFromVoyagerData(Folded(callIn), EmptyProfile))
        /\ (/\ Names(callIn, "language")
            /\ \A w \in {"profile", "position", "education", "skill"} : ~Names(callIn, w))
              => Handled(profile) = {"language"}
        /\ (/\ Names(callIn, "certification")
            /\ \A w \in {"profile", "position", "education", "skill", "language"} :
                  ~Names(callIn, w))
              => Handled(profile) = {"certification"}

\* C25: an entry is handled by one extractor at most, the first of profile,
\* position, education, skill, language, certification that matches: an entry
\* whose discriminator names a profile and neither a position nor an education
\* is handled as a profile whatever else it names, and adds no skill, language
\* or certification; an entry handled as a later category matches none before.
C25_FirstMatchOnly ==
    (pc = "extracted") =>
        LET typeLower == ToLower(callIn.type)
            isProfile == /\ Contains(typeLower, <<"profile">>)
                         /\ ~Contains(typeLower, <<"position">>)
                         /\ ~Contains(typeLower, <<"education">>)
            before(c) ==
                CASE c = "position" -> {}
                  [] c = "education" -> {"position"}
                  [] c = "skill" -> {"position", "education"}
                  [] c = "language" -> {"position", "education", "skill"}
                  [] c = "certification" -> {"position", "education", "skill"}
                  [] OTHER -> {}
        IN /\ Cardinality(Handled(profile)) <= 1
           /\ isProfile =>
                 /\ Handled(profile) = {"profile"}
                 /\ profile.Skills = << >>
                 /\ profile.Languages = << >>
                 /\ profile.Certifications = << >>
           /\ ~isProfile => "profile" \notin Handled(profile)
           /\ \A c \in Handled(profile) : \A w \in before(c) : ~Names(callIn, w)
           /\ ("certification" \in Handled(profile)) =>
                 /\ ~Contains(callIn.type, <<"Language">>)
                 /\ ~Contains(callIn.urn, <<"fs_", "language">>)

\* C25 witness: an entry whose discriminator names a profile and a skill has
\* been handled as a profile.
C25_Witness ==
    /\ pc = "extracted"
    /\ callIn.type = <<"com.linkedin.voyager.", "Profile", "Skill">>
    /\ profile.FirstName = <<"Grace">>
    /\ profile.Skills = << >>

(***************************************************************************)
(* fetchUserRepos (part_005:177-237) one request at a time.  The account   *)
(* has a list of repositories; the API answers every request with 200 and  *)
(* the page asked for, but for one request at most, which it answers with  *)
(* another status, with an error of transport or decoding (0), or not at   *)
(* all: the http.Client of part_005:193 is the zero value, without Timeout.*)
(***************************************************************************)
NoAnswer == 0 - 1

\* the number of repositories of the accounts
ListingSizes == {0, 1, 99, 100, 101, 200, 250, 900, 999, 1000, 1001, 1100}

\* the i-th repository of an account, with i stars
Listing(n) == Account([i \in 1..n |-> <<i, FALSE, FALSE>>])

answerOf(plan, page) == IF page = plan.failAt THEN plan.answer ELSE StatusOK

InitRepos ==
    /\ pc = "r_loop"
    /\ callIn \in [all : {Listing(n) : n \in ListingSizes},
                   failAt : 0..(MaxPages + 1),
                   answer : {404, 500, 0, NoAnswer}]
    /\ callOut = None
    /\ reqPage = 1 /\ collected = << >> /\ asked = << >>
    /\ cookie = << >> /\ username = << >>
    /\ IdleInit /\ IdleFetch /\ IdleParse /\ IdleURL /\ IdleGithub /\ IdleCommands
    /\ IdleServe

\* return of fetchUserRepos, or the next turn of the loop
repoReturn(done, value) == IF done THEN Some(value) ELSE None

\* the request for the page is built and client.Do is called (part_005:183-194)
RepoSend ==
    /\ pc = "r_loop"
    /\ asked' = Append(asked, reqPage)
    /\ pc' = "r_do"
    /\ UNCHANGED <<callIn, callOut, reqPage, collected, initVars, fetchVars, parseVars,
                   urlVars, githubVars, commandVars, serveVars>>

\* client.Do returns and the rest of the turn runs (part_005:194-234)
RepoAnswer ==
    /\ pc = "r_do"
    /\ answerOf(callIn, reqPage) # NoAnswer
    /\ LET answer == answerOf(callIn, reqPage)
           repos == reposPage(callIn.all, reqPage)
           failed == answer # StatusOK
           error == IF answer = 0 THEN "transport"
                    ELSE IF answer = 404 THEN "not found" ELSE "status"
           last == Len(repos) = 0 \/ Len(repos) < PerPage \/ reqPage + 1 > MaxPages
           ret == repoReturn(failed \/ last,
                             IF failed THEN [repos |-> << >>, err |-> error]
                             ELSE [repos |-> collected \o repos, err |-> ""])
       IN /\ collected' = IF failed THEN collected ELSE collected \o repos
          /\ reqPage' = IF failed \/ Len(repos) = 0 \/ Len(repos) < PerPage
                        THEN reqPage ELSE reqPage + 1
          /\ callOut' = ret
          /\ pc' = IF ret # None THEN "r_done" ELSE "r_loop"
    /\ UNCHANGED <<callIn, asked, initVars, fetchVars, parseVars, urlVars, githubVars,
                   commandVars, serveVars>>

NextRepos ==
    \/ RepoSend
    \/ RepoAnswer

SpecRepos == InitRepos /\ [][NextRepos]_vars

\* the calling goroutine runs whenever it can
SpecReposFair == SpecRepos /\ WF_vars(NextRepos)

\* the requests sent are for the pages 1, 2, ... in order, ten at most, each
\* after a full page answered with 200
PagesInOrder ==
    /\ Len(asked) <= MaxPages
    /\ \A i \in DOMAIN asked :
          /\ asked[i] = i
          /\ i > 1 => /\ answerOf(callIn, i - 1) = StatusOK
                      /\ Len(reposPage(callIn.all, i - 1)) = PerPage

\* the function has returned: after an error, an empty page, a short page or
\* page ten, with all the pages fetched, in order
StopsWithAllPages ==
    (pc = "r_done") =>
        LET n == Len(asked)
            got == Get(callOut)
        IN IF answerOf(callIn, n) # StatusOK
           THEN got.repos = << >> /\ got.err # ""
           ELSE /\ got.err = ""
                /\ \/ Len(reposPage(callIn.all, n)) < PerPage
                   \/ n = MaxPages
                /\ got.repos = Upto(callIn.all, Min(Len(callIn.all), n * PerPage))
                /\ Len(got.repos) <= MaxPages * PerPage

\* C26: fetchUserRepos returns, after ten requests at most, for the pages 1,
\* 2, ... in order; it stops at the first empty or short page, at the first
\* error or after page ten, and returns the pages fetched, in order.
C26_TerminatesWithinTenPages ==
    /\ <>(pc = "r_done")
    /\ [](PagesInOrder /\ StopsWithAllPages)

(***************************************************************************)
(* The level of a language of the profile as ToCV gives it to the resume   *)
(* (scraper.go:812-818, 868-885).  A proficiency is text of words with a   *)
(* blank between them.                                                      *)
(***************************************************************************)
MaxLevelWords == 3   \* words of a proficiency

LevelWords ==
    {"Native", "native", "Bilingual", "Full", "Professional", "professional", "Working",
     "Limited", "Elementary", "Fluent", "Basic", "basic", "or"}

\* the words with a blank between one and the next
RECURSIVE Spaced(_)
Spaced(ws) ==
    IF Len(ws) <= 1 THEN ws ELSE <<Head(ws), " ">> \o Spaced(Tail(ws))

Proficiencies == {Spaced(ws) : ws \in SeqsUpTo(LevelWords, MaxLevelWords)}

InitLevels ==
    /\ pc = "level"
    /\ callIn \in Proficiencies
    /\ callOut = None
    /\ cookie = << >> /\ username = << >>
    /\ IdleInit /\ IdleFetch /\ IdleParse /\ IdleURL /\ IdleGithub /\ IdleCommands
    /\ IdleServe /\ IdleRepos

\* ToCV converts a language of the profile (scraper.go:813-818)
ConvertLanguage ==
    /\ pc = "level"
    /\ callOut' = Some(toCVLanguage([Name |-> <<"French">>, Proficiency |-> callIn]))
    /\ pc' = "converted"
    /\ UNCHANGED <<callIn, repoVars, initVars, fetchVars, parseVars, urlVars, githubVars,
                   commandVars, serveVars>>

NextLevels == ConvertLanguage

SpecLevels == InitLevels /\ [][NextLevels]_vars

\* the band of the first check, in the order of the claim, that the text in
\* lower case matches; None when it matches none
Band(low) ==
    IF Contains(low, <<"native">>) \/ Contains(low, <<"bilingual">>)
    THEN Some(<<"Native">>)
    ELSE IF Contains(low, <<"full", " ", "professional">>) \/ Contains(low, <<"fluent">>)
    THEN Some(<<"Fluent (C1-C2)">>)
    ELSE IF Contains(low, <<"professional", " ", "working">>)
    THEN Some(<<"Professional (B2)">>)
    ELSE IF Contains(low, <<"limited", " ", "working">>)
    THEN Some(<<"Intermediate (B1)">>)
    ELSE IF Contains(low, <<"elementary">>)
    THEN Some(<<"Elementary (A2)">>)
    ELSE None

\* C27: the level is the band of the first check that matches, whatever the
\* letter case of the proficiency; a proficiency that matches none is the level
\* as it is, letter case included.
C27_BandOrVerbatim ==
    (pc = "converted") =>
        LET band == Band(ToLower(callIn))
            level == Get(callOut).Level
        IN /\ band # None => level = Get(band)
           /\ band = None => level = callIn


====
